---- MODULE Spec2Model ----
(***************************************************************************)
(* A model of qbsp's brush BSP builder (src/qbsp/brushbsp.cc): SplitBrush, *)
(* SelectSplitPlane, SplitBrushList, the parallel BuildTree_r recursion,   *)
(* BrushBSP and ChopBrushes.                                               *)
(*                                                                         *)
(* Geometry.  vec_t is modelled as a fixed-point number: every length is   *)
(* an integer number of 1/Scale map units.  Brushes are axial boxes, so    *)
(* every plane is axial, every winding is an axis-aligned rectangle and    *)
(* every clip point is exact.  Thresholds of the code that are not a whole *)
(* number of units (0.1, 0.2, 0.001) are compared after cross-multiplying, *)
(* e.g.  d < 0.1  is written  10 * d < Scale.                              *)
(***************************************************************************)
EXTENDS Integers, Sequences, FiniteSets, TLC

VARIABLES
    pc,         \* which entry point is running and where it is
    mapbrushes, \* the entity's map brushes, which the brushes' mapbrush fields refer to
    opts,       \* qbsp_options: the injected configuration of this run
    brushlist,  \* the caller's brush container (BrushBSP's / ChopBrushes' argument)
    nodes,      \* tree_t's node arena: node id (1..Len) -> node_t
    tasks,      \* the BuildTree_r invocations: node id -> [state, brushes]
    stats,      \* bspstats_t of the running BrushBSP
    list,       \* ChopBrushes: the working std::list of brushes
    b1_it,      \* ChopBrushes: position of the outer iterator in list
    sb          \* SplitBrush harness: the call under test and its result

vars == <<pc, mapbrushes, opts, brushlist, nodes, tasks, stats, list, b1_it, sb>>

-----------------------------------------------------------------------------
(* Scalars *)

\* fixed-point resolution of vec_t: units per map unit
Scale == 20

\* the largest vec_t the model represents; products saturate here
VECT_MAX == 2000000000

Abs(x) == IF x < 0 THEN -x ELSE x
Min2(a, b) == IF a < b THEN a ELSE b
Max2(a, b) == IF a > b THEN a ELSE b
SetMax(S) == CHOOSE x \in S : \A y \in S : y <= x
SetMin(S) == CHOOSE x \in S : \A y \in S : x <= y

RECURSIVE GCD(_, _)
\* the greatest common divisor of two naturals
GCD(a, b) == IF b = 0 THEN a ELSE GCD(b, a % b)

RECURSIVE ISqrtIn(_, _, _)
\* the largest r in lo..hi with r * r <= n
ISqrtIn(n, lo, hi) ==
    IF lo >= hi THEN lo
    ELSE IF ((lo + hi + 1) \div 2) * ((lo + hi + 1) \div 2) <= n
    THEN ISqrtIn(n, (lo + hi + 1) \div 2, hi)
    ELSE ISqrtIn(n, lo, ((lo + hi + 1) \div 2) - 1)

\* the square root of a natural, rounded down
ISqrt(n) == ISqrtIn(n, 0, 46340)

\* a * b / c for vec_t values, the fraction reduced before it is multiplied out
MulDivReduced(a, b, c, g) ==
    ((a \div g) * (b \div GCD(Abs(b), Abs(c) \div g))) \div
        ((c \div g) \div GCD(Abs(b), Abs(c) \div g))
MulDiv(a, b, c) == IF a = 0 \/ b = 0 THEN 0 ELSE MulDivReduced(a, b, c, GCD(Abs(a), Abs(c)))

\* a * b for vec_t values, saturating at +-VECT_MAX
SatMul(a, b) ==
    IF a = 0 \/ b = 0 THEN 0
    ELSE IF Abs(a) > VECT_MAX \div Abs(b)
         THEN (IF (a < 0) = (b < 0) THEN VECT_MAX ELSE -VECT_MAX)
         ELSE a * b

\* a + b for vec_t values, saturating at +-VECT_MAX
SatAdd(a, b) ==
    IF a > 0 /\ b > 0 /\ a > VECT_MAX - b THEN VECT_MAX
    ELSE IF a < 0 /\ b < 0 /\ a < (-VECT_MAX) - b THEN -VECT_MAX
    ELSE a + b

\* std::optional / null pointer: the empty sequence; a present value is <<v>>
nullopt == <<>>
Some(v) == <<v>>
Has(o) == Len(o) > 0
Val(o) == o[1]

\* a function on 1..n as a sequence value, its elements evaluated once
SeqOf(f) == f \o <<>>

\* a vector of three components
Vec3(F(_)) == <<F(1), F(2), F(3)>>

\* planenum ^ 1 and planenum & ~1
Xor1(p) == IF p % 2 = 0 THEN p + 1 ELSE p - 1
Positive(p) == p - (p % 2)

-----------------------------------------------------------------------------
(* Vectors, planes and the plane registry *)

Dot(a, b) == a[1] * b[1] + a[2] * b[2] + a[3] * b[3]

Axes == 1..3

PLANE_X == 0
PLANE_ANYX == 3

\* the integers in registry order 0, 1, -1, 2, -2, ...
ZigZag(d) == IF d > 0 THEN 2 * d - 1 ELSE -(2 * d)
UnZigZag(k) == IF k % 2 = 1 THEN (k + 1) \div 2 ELSE -(k \div 2)

\* the first index of the registry that holds a plane that is not axial
SlopedBase == 100000000

\* the indices NearBase + p and 2 * NearBase + p hold the two planes that lie
\* between DIST_EPSILON (0.0001) and PLANESIDE_EPSILON (0.001) in front of
\* and behind the plane at index p: entries of their own in the registry,
\* with the coordinates of plane p at the resolution of Scale
NearBase == 200000000

\* map.planes[planenum]: the plane stored at an index.  An even index holds
\* the plane with the positive normal, the next odd index its flip.
\* The normal of a plane is normal / den: axial planes have den = 1, and the
\* indices from SlopedBase on hold the planes of normal (3, 4, 0) / 5.
Plane(planenum) ==
    LET p == planenum % NearBase
        sloped == p >= SlopedBase
        k == IF sloped THEN (p - SlopedBase) \div 2 ELSE p \div 2
        axis == (k % 3) + 1
        dist == UnZigZag(IF sloped THEN k ELSE k \div 3)
        sign == IF p % 2 = 0 THEN 1 ELSE -1
    IN  [normal |-> IF sloped THEN <<3 * sign, 4 * sign, 0>>
                    ELSE Vec3(LAMBDA i : IF i = axis THEN sign ELSE 0),
         den |-> IF sloped THEN 5 ELSE 1,
         dist |-> sign * dist]

\* map.add_or_find_plane: the index of an (axial) plane
add_or_find_plane(plane) ==
    LET axis == CHOOSE i \in Axes : plane.normal[i] # 0
        sign == IF plane.normal[axis] > 0 THEN 1 ELSE -1
        positive_dist == sign * plane.dist
    IN  IF plane.den = 1
        THEN 2 * (3 * ZigZag(positive_dist) + (axis - 1)) + (IF sign > 0 THEN 0 ELSE 1)
        ELSE SlopedBase + 2 * ZigZag(positive_dist) + (IF sign > 0 THEN 0 ELSE 1)

\* qbsp_plane_t::get_type: PLANE_X + axis for an axial plane
get_type(plane) ==
    IF plane.den = 1
    THEN PLANE_X + (CHOOSE i \in Axes : Abs(plane.normal[i]) = 1) - 1
    ELSE PLANE_ANYX

\* qplane3d::distance_to / dist_above
DistanceTo(plane, p) == (Dot(p, plane.normal) \div plane.den) - plane.dist

-----------------------------------------------------------------------------
(* aabb3d *)

\* aabb3d of a non-empty set of points
BoundsOf(points) ==
    [mins |-> Vec3(LAMBDA i : SetMin({p[i] : p \in points})),
     maxs |-> Vec3(LAMBDA i : SetMax({p[i] : p \in points}))]

\* a default-constructed (empty, inverted) aabb3d
EmptyBounds == [mins |-> Vec3(LAMBDA i : VECT_MAX), maxs |-> Vec3(LAMBDA i : -VECT_MAX)]

\* aabb3d::operator+= / unionWith
UnionBounds(a, b) ==
    [mins |-> Vec3(LAMBDA i : Min2(a.mins[i], b.mins[i])),
     maxs |-> Vec3(LAMBDA i : Max2(a.maxs[i], b.maxs[i]))]

\* aabb3d::grow
Grow(b, size) ==
    [mins |-> Vec3(LAMBDA i : b.mins[i] - size),
     maxs |-> Vec3(LAMBDA i : b.maxs[i] + size)]

\* aabb3d::disjoint_or_touching
disjoint_or_touching(a, b) ==
    \E i \in Axes : a.maxs[i] <= b.mins[i] \/ a.mins[i] >= b.maxs[i]

\* aabb3d::volume
BoundsVolume(b) ==
    SatMul(SatMul(b.maxs[1] - b.mins[1], b.maxs[2] - b.mins[2]), b.maxs[3] - b.mins[3])

-----------------------------------------------------------------------------
(* winding_t: a sequence of points; the empty sequence is "no winding" *)

NoWinding == <<>>

SIDE_FRONT == 0
SIDE_BACK == 1
SIDE_ON == 2

BOGUS_RANGE == 65536

\* a point of the plane's base winding: v on the plane's axis a, x and y on
\* the two other axes
BasePoint(a, v, x, y) ==
    Vec3(LAMBDA i : IF i = a THEN v ELSE IF i = (a % 3) + 1 THEN x ELSE y)

\* the base winding of the plane with axis a through v * e_a
BaseWindingOn(a, v, R) ==
    <<BasePoint(a, v, -R, -R), BasePoint(a, v, -R, R), BasePoint(a, v, R, R), BasePoint(a, v, R, -R)>>

\* the axis of an axial plane
AxisOf(plane) == CHOOSE i \in Axes : plane.normal[i] # 0

\* p + q and p - q
VecAdd(p, q) == <<p[1] + q[1], p[2] + q[2], p[3] + q[3]>>
VecSub(p, q) == <<p[1] - q[1], p[2] - q[2], p[3] - q[3]>>

\* the base winding of a plane whose major axis is x or y and whose normal
\* has no z: vup = e_z, org = normal * dist, vright = vup x normal
UprightWinding(org, vright, vup) ==
    <<VecAdd(VecSub(org, vright), vup), VecAdd(VecAdd(org, vright), vup),
      VecSub(VecAdd(org, vright), vup), VecSub(VecSub(org, vright), vup)>>

\* the base winding of a plane that is not axial
SlopedWinding(plane, R) ==
    UprightWinding(<<(plane.normal[1] * plane.dist) \div plane.den,
                     (plane.normal[2] * plane.dist) \div plane.den, 0>>,
                   <<(-plane.normal[2] * R) \div plane.den,
                     (plane.normal[1] * R) \div plane.den, 0>>,
                   <<0, 0, R>>)

\* BaseWindingForPlane: a square of side 2 * BOGUS_RANGE on the plane
BaseWindingForPlane(plane) ==
    IF plane.den = 1
    THEN BaseWindingOn(AxisOf(plane), plane.normal[AxisOf(plane)] * plane.dist,
                       BOGUS_RANGE * Scale)
    ELSE SlopedWinding(plane, BOGUS_RANGE * Scale)

\* the side a point at distance d is on, within on_epsilon (a fraction num/den)
SideOfDist(d, eps_num, eps_den) ==
    IF d * eps_den > eps_num THEN SIDE_FRONT
    ELSE IF d * eps_den < -eps_num THEN SIDE_BACK
    ELSE SIDE_ON

\* which side of the plane a point is on, within on_epsilon
PointSide(plane, p, eps_num, eps_den) == SideOfDist(DistanceTo(plane, p), eps_num, eps_den)

\* the point where the edge p1 -> p2, at distances d1 and d2, crosses the plane
ClipMidAt(plane, p1, p2, d1, d2) ==
    Vec3(LAMBDA j :
            IF plane.normal[j] = 1 THEN plane.dist
            ELSE IF plane.normal[j] = -1 THEN -plane.dist
            ELSE p1[j] + MulDiv(d1, p2[j] - p1[j], d1 - d2))

ClipMid(plane, p1, p2) ==
    ClipMidAt(plane, p1, p2, DistanceTo(plane, p1), DistanceTo(plane, p2))

\* the two parts after vertex p1 (on side s1): f1 and b1 are the parts with p1
\* added; the crossing point is added when the edge to p2 (on side s2) crosses
ClipCross(plane, p1, p2, s1, s2, f1, b1) ==
    IF s1 # SIDE_ON /\ s2 # SIDE_ON /\ s2 # s1
    THEN <<Append(f1, ClipMid(plane, p1, p2)), Append(b1, ClipMid(plane, p1, p2))>>
    ELSE <<f1, b1>>

\* one vertex of winding_t::clip; acc = <<front, back>>
ClipEdge(acc, plane, p1, p2, s1, s2) ==
    ClipCross(plane, p1, p2, s1, s2,
              IF s1 # SIDE_BACK THEN Append(acc[1], p1) ELSE acc[1],
              IF s1 # SIDE_FRONT THEN Append(acc[2], p1) ELSE acc[2])

RECURSIVE ClipLoop(_, _, _, _, _, _)
\* the vertex loop of winding_t::clip from vertex i on; acc = <<front, back>>
ClipLoop(w, plane, eps_num, eps_den, i, acc) ==
    IF i > Len(w) THEN acc
    ELSE ClipLoop(w, plane, eps_num, eps_den, i + 1,
                  ClipEdge(acc, plane, w[i], w[(i % Len(w)) + 1],
                           PointSide(plane, w[i], eps_num, eps_den),
                           PointSide(plane, w[(i % Len(w)) + 1], eps_num, eps_den)))

\* winding_t::clip when the vertices lie on the given sides
ClipBySides(w, plane, eps_num, eps_den, sides) ==
    IF SIDE_FRONT \notin sides THEN <<NoWinding, w>>
    ELSE IF SIDE_BACK \notin sides THEN <<w, NoWinding>>
    ELSE ClipLoop(w, plane, eps_num, eps_den, 1, <<NoWinding, NoWinding>>)

\* winding_t::clip(plane, on_epsilon): <<front part, back part>>
Clip(w, plane, eps_num, eps_den) ==
    ClipBySides(w, plane, eps_num, eps_den,
                {PointSide(plane, w[i], eps_num, eps_den) : i \in 1..Len(w)})

\* winding_t::clip_back(plane) with the default on_epsilon of 0.1
clip_back(w, plane) == Clip(w, plane, Scale, 10)[2]

\* winding_t::flip: the same points in the opposite order
flip(w) == SeqOf([i \in 1..Len(w) |-> w[Len(w) + 1 - i]])

\* the length of the vector g * v, v having no common divisor: g for a vector
\* along an axis, rounded down to a hundredth of g otherwise
ScaledLength(g, v) ==
    IF Dot(v, v) = 1 THEN g ELSE SatMul(g, ISqrt(Dot(v, v) * 10000)) \div 100

\* qv::length of a vector with components a, b and c >= 0
VecLength(a, b, c) ==
    IF a + b + c = 0 THEN 0
    ELSE ScaledLength(GCD(GCD(a, b), c),
                      <<a \div GCD(GCD(a, b), c), b \div GCD(GCD(a, b), c),
                        c \div GCD(GCD(a, b), c)>>)

\* length of an edge
EdgeLength(p, q) == VecLength(Abs(q[1] - p[1]), Abs(q[2] - p[2]), Abs(q[3] - p[3]))

\* twice the area of the triangle spanned by u and v: the length of u x v
CrossLength(u, v) ==
    VecLength(Abs(SatMul(u[2], v[3]) - SatMul(u[3], v[2])),
              Abs(SatMul(u[3], v[1]) - SatMul(u[1], v[3])),
              Abs(SatMul(u[1], v[2]) - SatMul(u[2], v[1])))

RECURSIVE FanArea(_, _)
\* twice the area of the triangles w[1], w[i], w[i + 1] from i on
FanArea(w, i) ==
    IF i >= Len(w) THEN 0
    ELSE SatAdd(CrossLength(VecSub(w[i], w[1]), VecSub(w[i + 1], w[1])), FanArea(w, i + 1))

\* winding_t::area (fan of triangles from w[1])
WindingArea(w) == IF Len(w) < 3 THEN 0 ELSE FanArea(w, 2) \div 2

-----------------------------------------------------------------------------
(* Contents and the target-game trait *)

CONTENTS_EMPTY == -1
CONTENTS_SOLID == -2
CONTENTS_WATER == -3
CFLAGS_DETAIL == 1

Contents(native, cflags) == [native |-> native, cflags |-> cflags]

\* target_game->create_empty_contents
create_empty_contents == Contents(CONTENTS_EMPTY, 0)

\* target_game->combine_contents: solid wins over liquid, liquid over empty
combine_contents(a, b) ==
    IF a.native = CONTENTS_SOLID THEN a
    ELSE IF b.native = CONTENTS_SOLID THEN b
    ELSE IF a.native = CONTENTS_WATER THEN a
    ELSE IF b.native = CONTENTS_WATER THEN b
    ELSE a

\* contentflags_t::is_any_detail / is_solid
is_any_detail(c) == c.cflags = CFLAGS_DETAIL
is_solid(c) == c.native = CONTENTS_SOLID

-----------------------------------------------------------------------------
(* side_t and bspbrush_t *)

PSIDE_FRONT == 1
PSIDE_BACK == 2
PSIDE_BOTH == 3
PSIDE_FACING == 4

\* does a side set s (an OR of PSIDE_ bits) contain the bit?
HasBit(s, bit) == (s \div bit) % 2 = 1

TexNormal == "normal"
TexHint == "hint"
TexHintskip == "hintskip"
\* map.skip_texinfo
skip_texinfo == "skip"

is_hint(side) == side.texinfo = TexHint
is_hintskip(side) == side.texinfo = TexHintskip
is_visible(side) == side.visible

\* a value-initialised side_t (side_t cs{})
NewSide(planenum, w) ==
    [planenum |-> planenum, w |-> w, texinfo |-> TexNormal, bevel |-> FALSE,
     onnode |-> FALSE, tested |-> FALSE, visible |-> FALSE]

\* all winding points of a list of sides
SidePoints(sides) == UNION {{sides[i].w[j] : j \in 1..Len(sides[i].w)} : i \in 1..Len(sides)}

\* the bounds of a set of winding points; ok is false when there is none
BoundsOfPoints(pts) ==
    IF pts = {} THEN [bounds |-> EmptyBounds, ok |-> FALSE]
    ELSE [bounds |-> BoundsOf(pts), ok |-> TRUE]

\* bspbrush_t::update_bounds: the bounds of all winding points; ok is false
\* when the brush has no point at all
update_bounds(sides) == BoundsOfPoints(SidePoints(sides))

RECURSIVE ClipByOthers(_, _, _, _)
\* the winding of side i: its base winding cut by the back of every other side
ClipByOthers(w, sides, i, j) ==
    IF j > Len(sides) \/ w = NoWinding THEN w
    ELSE IF j = i \/ sides[j].bevel THEN ClipByOthers(w, sides, i, j + 1)
    ELSE ClipByOthers(Clip(w, Plane(sides[j].planenum), 0, 1)[2], sides, i, j + 1)

\* CreateBrushWindings: give every side its winding
CreateBrushWindings(sides) ==
    SeqOf([i \in 1..Len(sides) |->
        [sides[i] EXCEPT !.w = ClipByOthers(BaseWindingForPlane(Plane(sides[i].planenum)),
                                            sides, i, 1)]])

\* the six planes of BrushFromBounds, sides[i] = +e_i at maxs, sides[3+i] = -e_i at -mins
BoundsPlanes(bounds) ==
    SeqOf([k \in 1..6 |->
        IF k <= 3
        THEN add_or_find_plane([normal |-> Vec3(LAMBDA i : IF i = k THEN 1 ELSE 0),
                                den |-> 1, dist |-> bounds.maxs[k]])
        ELSE add_or_find_plane([normal |-> Vec3(LAMBDA i : IF i = k - 3 THEN -1 ELSE 0),
                                den |-> 1, dist |-> -bounds.mins[k - 3]])])

\* a bspbrush_t with the given identity, sides and contents
NewBrush(id, sides, bounds, contents, mapcontents, original_ptr) ==
    [id |-> id, sides |-> sides, bounds |-> bounds,
     contents |-> contents, mapbrush |-> [contents |-> mapcontents],
     original_ptr |-> original_ptr, side |-> 0, testside |-> 0]

\* a new brush of empty contents with the given sides
BrushOfSides(sides) ==
    NewBrush(<<0>>, sides, update_bounds(sides).bounds,
             create_empty_contents, create_empty_contents, nullopt)

\* the sides of the given planes, without windings
SidesOfPlanes(planes) == SeqOf([k \in 1..Len(planes) |-> NewSide(planes[k], NoWinding)])

\* bspbrush_t::original_brush(): the pre-split ancestor, or the brush itself
original_brush(brush) == IF brush.original_ptr # nullopt THEN brush.original_ptr ELSE brush.id

\* BrushFromBounds: a new axial brush
BrushFromBounds(bounds) ==
    BrushOfSides(CreateBrushWindings(SidesOfPlanes(BoundsPlanes(bounds))))

RECURSIVE VolumeSum(_, _, _)
\* the sum over the sides from i on of area times distance to the corner
VolumeSum(brush, corner, i) ==
    IF i > Len(brush.sides) THEN 0
    ELSE SatAdd(IF Len(brush.sides[i].w) = 0 THEN 0
                ELSE SatMul(-DistanceTo(Plane(brush.sides[i].planenum), corner),
                            WindingArea(brush.sides[i].w)),
                VolumeSum(brush, corner, i + 1))

\* the sides of a brush that have a winding
ValidSides(brush) == {i \in 1..Len(brush.sides) : Len(brush.sides[i].w) > 0}

\* BrushVolume: tetrahedrons from one corner to every face
BrushVolume(brush) ==
    IF ValidSides(brush) = {} THEN 0
    ELSE VolumeSum(brush, brush.sides[SetMax(ValidSides(brush))].w[1], 1) \div 3

-----------------------------------------------------------------------------
(* Classification of a brush against a plane *)

\* PLANESIDE_EPSILON is 1 / PLANESIDE_EPSILON_INV map units (0.001)
PLANESIDE_EPSILON_INV == 1000

\* the bits of a box whose leading and trailing corner are at these distances
\* (dist1 >= PLANESIDE_EPSILON is FRONT, dist2 < PLANESIDE_EPSILON is BACK)
CornerSides(dist1, dist2) ==
    (IF dist1 * PLANESIDE_EPSILON_INV >= Scale THEN PSIDE_FRONT ELSE 0)
    + (IF dist2 * PLANESIDE_EPSILON_INV < Scale THEN PSIDE_BACK ELSE 0)

\* BoxOnPlaneSide for an axial plane of axis a
AxialBoxSide(bounds, plane, a) ==
    (IF bounds.maxs[a] * PLANESIDE_EPSILON_INV > plane.dist * PLANESIDE_EPSILON_INV + Scale
     THEN PSIDE_FRONT ELSE 0)
    + (IF bounds.mins[a] * PLANESIDE_EPSILON_INV < plane.dist * PLANESIDE_EPSILON_INV - Scale
       THEN PSIDE_BACK ELSE 0)

\* BoxOnPlaneSide: PSIDE_FRONT, PSIDE_BACK or both, as an OR of bits
BoxOnPlaneSide(bounds, plane) ==
    IF get_type(plane) < PLANE_ANYX
    THEN AxialBoxSide(bounds, plane, get_type(plane) + 1)
    ELSE CornerSides(
             DistanceTo(plane, Vec3(LAMBDA i : IF plane.normal[i] < 0 THEN bounds.mins[i]
                                               ELSE bounds.maxs[i])),
             DistanceTo(plane, Vec3(LAMBDA i : IF plane.normal[i] < 0 THEN bounds.maxs[i]
                                               ELSE bounds.mins[i])))

\* the vertex distances of side i of a brush to a plane
SideDists(brush, plane, i) ==
    {DistanceTo(plane, brush.sides[i].w[j]) : j \in 1..Len(brush.sides[i].w)}

\* does the plane cut the winding? (some vertex beyond 0.1 on either side)
SplitsWinding(dists) == (\E d \in dists : 10 * d > Scale) /\ (\E d \in dists : 10 * d < -Scale)

\* is the brush within an epsilon of the plane on one side?
IsEpsilonBrush(d_front, d_back) ==
    (d_front > 0 /\ d_front < Scale) \/ (d_back < 0 /\ d_back > -Scale)

\* the sides TestBrushToPlanenum looks at: not onnode, visible, with a winding
CountedSides(brush) ==
    {i \in 1..Len(brush.sides) :
        /\ ~brush.sides[i].onnode
        /\ is_visible(brush.sides[i])
        /\ brush.sides[i].w # NoWinding}

\* what the counting loop leaves in the three out-parameters
SplitCounts(brush, splitters, all) ==
    [numsplits |-> Cardinality(splitters),
     hintsplit |-> \E i \in splitters : is_hint(brush.sides[i]),
     epsilonbrush |-> IF IsEpsilonBrush(SetMax(all \cup {0}), SetMin(all \cup {0})) THEN 1 ELSE 0]

\* the split-counting loop of TestBrushToPlanenum over the sides of a brush
CountSplits(brush, plane) ==
    SplitCounts(brush,
                {i \in CountedSides(brush) :
                    SplitsWinding(SideDists(brush, plane, i)) /\ ~is_hintskip(brush.sides[i])},
                UNION {SideDists(brush, plane, i) : i \in CountedSides(brush)})

\* the out-parameters of a call that returns before the counting loop
NoCounts == [numsplits |-> 0, hintsplit |-> FALSE, epsilonbrush |-> 0]

\* the sides of the brush that lie on the plane or its flip
FacingSides(brush, planenum) ==
    {i \in 1..Len(brush.sides) : brush.sides[i].planenum \in {planenum, Xor1(planenum)}}

\* TestBrushToPlanenum for a brush with no side on the plane: s = BoxOnPlaneSide
TestBox(brush, planenum, counts, s) ==
    IF s # PSIDE_BOTH \/ ~counts THEN [s |-> s] @@ NoCounts
    ELSE [s |-> s] @@ CountSplits(brush, Plane(planenum))

\* a TestBrushToPlanenum that returns for a facing brush without having reset
\* *numsplits, which then holds what the caller's variable held
TestBrushToPlanenumStale(brush, planenum, counts) ==
    IF FacingSides(brush, planenum) # {}
    THEN [s |-> IF brush.sides[SetMin(FacingSides(brush, planenum))].planenum = planenum
                THEN PSIDE_BACK + PSIDE_FACING ELSE PSIDE_FRONT + PSIDE_FACING]
         @@ [NoCounts EXCEPT !.numsplits = 1]
    ELSE TestBox(brush, planenum, counts, BoxOnPlaneSide(brush.bounds, Plane(planenum)))

\* TestBrushToPlanenum.  counts says whether the three out-pointers are given.
\* The result carries what the call writes through them: numsplits and
\* hintsplit are reset by every call, epsilonbrush is only ever incremented.
TestBrushToPlanenum(brush, planenum, counts) ==
    IF FacingSides(brush, planenum) # {}
    THEN [s |-> IF brush.sides[SetMin(FacingSides(brush, planenum))].planenum = planenum
                THEN PSIDE_BACK + PSIDE_FACING ELSE PSIDE_FRONT + PSIDE_FACING] @@ NoCounts
    ELSE TestBox(brush, planenum, counts, BoxOnPlaneSide(brush.bounds, Plane(planenum)))

-----------------------------------------------------------------------------
(* SplitBrush *)

\* WindingIsTiny: at most two edges longer than size (= size_num / size_den map units)
WindingIsTiny(w, size_num, size_den) ==
    Cardinality({i \in 1..Len(w) :
                    EdgeLength(w[i], w[(i % Len(w)) + 1]) * size_den > size_num * Scale}) < 3

\* WindingIsHuge: some coordinate beyond the world extent
WindingIsHuge(w) ==
    \E i \in 1..Len(w) : \E j \in Axes : Abs(w[i][j]) > opts.worldextent

RECURSIVE SidePointsFrom(_, _)
\* the winding points of the sides from side i on, in iteration order
SidePointsFrom(sides, i) ==
    IF i > Len(sides) THEN <<>> ELSE sides[i].w \o SidePointsFrom(sides, i + 1)

\* the winding points of a list of sides, in iteration order
SidePointSeq(sides) == SidePointsFrom(sides, 1)

RECURSIVE MostlyLoop(_, _, _, _, _)
\* the vertex loop of BrushMostlyOnSide from point i on
MostlyLoop(pts, plane, i, max, side) ==
    IF i > Len(pts) THEN side
    ELSE LET d == DistanceTo(plane, pts[i])
             max1 == IF d > max THEN d ELSE max
             side1 == IF d > max THEN SIDE_FRONT ELSE side
         IN  IF -d > max1 THEN MostlyLoop(pts, plane, i + 1, -d, SIDE_BACK)
             ELSE MostlyLoop(pts, plane, i + 1, max1, side1)

\* BrushMostlyOnSide: the side of the plane the farthest vertex is on
BrushMostlyOnSide(brush, plane) ==
    MostlyLoop(SidePointSeq(brush.sides), plane, 1, 0, SIDE_FRONT)

RECURSIVE SplitSides(_, _, _, _)
\* the sides of half j (1 = front, 2 = back): every face whose clipped part
\* cw[i][j] is not empty
SplitSides(sides, cw, j, i) ==
    IF i > Len(sides) THEN <<>>
    ELSE LET rest == SplitSides(sides, cw, j, i + 1)
         IN  IF cw[i][j] = NoWinding THEN rest
             ELSE <<[sides[i] EXCEPT !.w = cw[i][j]]>> \o rest

RECURSIVE MidWinding(_, _, _)
\* the base winding of the split plane cut by the back of every face of the brush
MidWinding(w, sides, i) ==
    IF i > Len(sides) \/ w = NoWinding THEN w
    ELSE MidWinding(clip_back(w, Plane(sides[i].planenum)), sides, i + 1)

\* the result of SplitBrush: the two optional halves and what it added to the counters
SplitResult(front, back, bogus, removed, onesided, tiny) ==
    [front |-> front, back |-> back, c_bogus |-> bogus, c_brushesremoved |-> removed,
     c_brushesonesided |-> onesided, c_tinyvolumes |-> tiny]

\* d_front and d_back of SplitBrush: <<max, min>> of the vertex distances and 0
SplitExtent(ds) == <<SetMax(ds \cup {0}), SetMin(ds \cup {0})>>

\* the midwinding side of half i: planenum ^ i ^ 1, skip texture, onnode, the
\* winding flipped for the front half
MidSide(planenum, i, w) ==
    [NewSide(IF i = 0 THEN Xor1(planenum) ELSE planenum, IF i = 0 THEN flip(w) ELSE w)
        EXCEPT !.texinfo = skip_texinfo, !.onnode = TRUE]

\* half i of the brush, the midwinding w added to the sides of h
HalfBrush(brush, planenum, i, h, w) ==
    NewBrush(brush.id \o <<planenum, i>>, Append(h.sides, MidSide(planenum, i, w)),
             h.bounds, brush.contents, brush.mapbrush.contents, original_brush(brush))

\* the validity check of one half: ub is what update_bounds returned
HalfCheck(sides, ub, bogus) ==
    [sides |-> sides, bounds |-> ub.bounds, bogus |-> bogus,
     dropped |-> Len(sides) < 3 \/ bogus]

\* is a half with these bounds bogus?
HalfBogus(ub) ==
    \/ ~ub.ok
    \/ \E j \in Axes : \/ ub.bounds.mins[j] < -opts.worldextent
                       \/ ub.bounds.maxs[j] > opts.worldextent

\* a half with the given sides
HalfOfSides(sides) == HalfCheck(sides, update_bounds(sides), HalfBogus(update_bounds(sides)))

\* the end of SplitBrush: the halves r0 and r1, dropped when their volume is tiny
SplitTiny(r0, r1, tiny0, tiny1, nbogus) ==
    SplitResult(IF tiny0 THEN nullopt ELSE Some(r0),
                IF tiny1 THEN nullopt ELSE Some(r1),
                nbogus, 0, 0,
                (IF tiny0 THEN 1 ELSE 0) + (IF tiny1 THEN 1 ELSE 0))

\* SplitBrush once both halves are valid
SplitBoth(r0, r1, nbogus) ==
    SplitTiny(r0, r1, BrushVolume(r0) < opts.microvolume, BrushVolume(r1) < opts.microvolume,
              nbogus)

\* a validity check that keeps the trimmed half when the other one is dropped
SplitValidTrimmed(brush, planenum, w, h0, h1, nbogus) ==
    IF h0.dropped /\ h1.dropped
    THEN SplitResult(nullopt, nullopt, nbogus, 1, 0, 0)
    ELSE IF h0.dropped \/ h1.dropped
    THEN (IF ~h0.dropped
          THEN SplitResult(Some(HalfBrush(brush, planenum, 0, h0, w)), nullopt, nbogus, 0, 1, 0)
          ELSE SplitResult(nullopt, Some(HalfBrush(brush, planenum, 1, h1, w)), nbogus, 0, 1, 0))
    ELSE SplitBoth(HalfBrush(brush, planenum, 0, h0, w), HalfBrush(brush, planenum, 1, h1, w),
                   nbogus)

\* SplitBrush from the validity check of the halves h0 and h1 on
SplitValid(brush, planenum, w, h0, h1, nbogus) ==
    IF h0.dropped /\ h1.dropped
    THEN SplitResult(nullopt, nullopt, nbogus, 1, 0, 0)
    ELSE IF h0.dropped \/ h1.dropped
    THEN (IF ~h0.dropped
          THEN SplitResult(Some(brush), nullopt, nbogus, 0, 1, 0)
          ELSE SplitResult(nullopt, Some(brush), nbogus, 0, 1, 0))
    ELSE SplitBoth(HalfBrush(brush, planenum, 0, h0, w), HalfBrush(brush, planenum, 1, h1, w),
                   nbogus)

\* SplitBrush with the halves of the sides made
SplitHalves(brush, planenum, w, h0, h1) ==
    SplitValid(brush, planenum, w, h0, h1,
               (IF h0.bogus THEN 1 ELSE 0) + (IF h1.bogus THEN 1 ELSE 0))

\* SplitBrush with cw = w.clip(split, 0) of every face: <<front part, back part>>
SplitClipped(brush, planenum, w, cw) ==
    SplitHalves(brush, planenum, w,
                HalfOfSides(SplitSides(brush.sides, cw, 1, 1)),
                HalfOfSides(SplitSides(brush.sides, cw, 2, 1)))

\* SplitBrush with the midwinding w made
SplitMid(brush, planenum, split, w) ==
    IF w = NoWinding \/ WindingIsTiny(w, 2, 10)
    THEN (IF BrushMostlyOnSide(brush, split) = SIDE_FRONT
          THEN SplitResult(Some(brush), nullopt, 0, 0, 0, 0)
          ELSE SplitResult(nullopt, Some(brush), 0, 0, 0, 0))
    ELSE SplitClipped(brush, planenum, w,
                      SeqOf([i \in 1..Len(brush.sides) |-> Clip(brush.sides[i].w, split, 0, 1)]))

\* SplitBrush that takes any vertex off the plane for a crossing
SplitCrossingExact(brush, planenum, split, d) ==
    IF d[1] <= 0
    THEN SplitResult(nullopt, Some(brush), 0, 0, 0, 0)
    ELSE IF d[2] >= 0
    THEN SplitResult(Some(brush), nullopt, 0, 0, 0, 0)
    ELSE SplitMid(brush, planenum, split,
                  MidWinding(BaseWindingForPlane(split), brush.sides, 1))

\* SplitBrush with d = <<d_front, d_back>> found: a plane that does not cross
\* the brush returns it whole
SplitCrossing(brush, planenum, split, d) ==
    IF 10 * d[1] < Scale
    THEN SplitResult(nullopt, Some(brush), 0, 0, 0, 0)
    ELSE IF 10 * d[2] > -Scale
    THEN SplitResult(Some(brush), nullopt, 0, 0, 0, 0)
    ELSE SplitMid(brush, planenum, split,
                  MidWinding(BaseWindingForPlane(split), brush.sides, 1))

\* SplitBrush with the split plane looked up
SplitByPlane(brush, planenum, split) ==
    SplitCrossing(brush, planenum, split,
                  SplitExtent({DistanceTo(split, p) : p \in SidePoints(brush.sides)}))

\* SplitBrush(brush, planenum)
SplitBrush(brush, planenum) == SplitByPlane(brush, planenum, Plane(planenum))

-----------------------------------------------------------------------------
(* Splitter selection *)

\* CheckPlaneAgainstParents: is the plane already the plane of an ancestor?
\* (the code calls Error("Tried parent") when it is)
RECURSIVE TriedParent(_, _)
TriedParent(planenum, n) ==
    IF nodes[n].parent = 0 THEN FALSE
    ELSE nodes[nodes[n].parent].planenum = planenum \/ TriedParent(planenum, nodes[n].parent)

\* did SplitBrush return a brush on both sides?
BothHalves(r) == Has(r.front) /\ Has(r.back)

\* CheckPlaneAgainstVolume: does the plane split the node's volume in two?
CheckPlaneAgainstVolume(planenum, volume) == BothHalves(SplitBrush(Val(volume), planenum))

\* where the edge of the box along axis a through the corner c crosses the plane
SlopeCrossing(in_bounds, split, a, c) ==
    in_bounds.mins[a]
    + MulDiv(DistanceTo(split, [c EXCEPT ![a] = in_bounds.mins[a]]),
             in_bounds.maxs[a] - in_bounds.mins[a],
             DistanceTo(split, [c EXCEPT ![a] = in_bounds.mins[a]])
                 - DistanceTo(split, [c EXCEPT ![a] = in_bounds.maxs[a]]))

\* the crossings of the four edges of the box along axis a
SlopeCrossings(in_bounds, split, a) ==
    {SlopeCrossing(in_bounds, split, a, c) :
        c \in {in_bounds.mins[1], in_bounds.maxs[1]} \X {in_bounds.mins[2], in_bounds.maxs[2]}
              \X {in_bounds.mins[3], in_bounds.maxs[3]}}

\* split_mins and split_maxs of axis a: the least and the greatest crossing,
\* kept within the box
SlopeExtent(in_bounds, a, mids) ==
    <<Max2(Min2(SetMin(mids), in_bounds.maxs[a]), in_bounds.mins[a]),
      Min2(Max2(SetMax(mids), in_bounds.mins[a]), in_bounds.maxs[a])>>

\* the sloping cuts of DivideBounds; e[a] = <<split_mins, split_maxs>> of the
\* axes the plane is not parallel to
SlopeBounds(in_bounds, split, e) ==
    <<[in_bounds EXCEPT
          !.mins = Vec3(LAMBDA a : IF split.normal[a] > 0 THEN e[a][1] ELSE in_bounds.mins[a]),
          !.maxs = Vec3(LAMBDA a : IF split.normal[a] < 0 THEN e[a][2] ELSE in_bounds.maxs[a])],
      [in_bounds EXCEPT
          !.mins = Vec3(LAMBDA a : IF split.normal[a] < 0 THEN e[a][1] ELSE in_bounds.mins[a]),
          !.maxs = Vec3(LAMBDA a : IF split.normal[a] > 0 THEN e[a][2] ELSE in_bounds.maxs[a])]>>

\* DivideBounds: <<front_bounds, back_bounds>>
DivideBounds(in_bounds, split) ==
    IF get_type(split) < PLANE_ANYX
    THEN <<[in_bounds EXCEPT !.mins[get_type(split) + 1] = split.dist],
           [in_bounds EXCEPT !.maxs[get_type(split) + 1] = split.dist]>>
    ELSE SlopeBounds(in_bounds, split,
             SeqOf([a \in Axes |->
                 IF split.normal[a] = 0 THEN <<0, 0>>
                 ELSE SlopeExtent(in_bounds, a, SlopeCrossings(in_bounds, split, a))]))

\* |front volume - back volume| of the two bounds
VolumeDifference(fb) == Abs(BoundsVolume(fb[1]) - BoundsVolume(fb[2]))

\* SplitPlaneMetric: |front volume - back volume|, smaller is better
SplitPlaneMetric(plane, bounds) == VolumeDifference(DivideBounds(bounds, plane))

RECURSIVE SideIndexFrom(_, _)
\* every <<brush index, side index>> from brush b on, in iteration order
SideIndexFrom(brushes, b) ==
    IF b > Len(brushes) THEN <<>>
    ELSE SeqOf([k \in 1..Len(brushes[b].sides) |-> <<b, k>>]) \o SideIndexFrom(brushes, b + 1)

\* every <<brush index, side index>> of a brush list, in iteration order
SideIndex(brushes) == SideIndexFrom(brushes, 1)

\* the best planes of ChooseMidPlaneFromList after a candidate with this metric
MidBetter(best, positive_planenum, axial, metric) ==
    [anymetric |-> IF metric < best.anymetric THEN metric ELSE best.anymetric,
     anyplane |-> IF metric < best.anymetric THEN Some(positive_planenum) ELSE best.anyplane,
     axialmetric |-> IF axial /\ metric < best.axialmetric THEN metric ELSE best.axialmetric,
     axialplane |-> IF axial /\ metric < best.axialmetric
                    THEN Some(positive_planenum) ELSE best.axialplane,
     error |-> best.error]

\* a candidate of ChooseMidPlaneFromList taken with the side's planenum as it is
MidCandidateRaw(node, side, best) ==
    IF side.bevel \/ side.onnode THEN best
    ELSE IF node.volume = nullopt THEN [best EXCEPT !.error = "null volume"]
    ELSE IF ~CheckPlaneAgainstVolume(side.planenum, node.volume) THEN best
    ELSE MidBetter(best, side.planenum,
                   get_type(Plane(side.planenum)) < PLANE_ANYX,
                   SplitPlaneMetric(Plane(Positive(side.planenum)), node.bounds))

\* one candidate side of ChooseMidPlaneFromList
MidCandidate(node, side, best) ==
    IF side.bevel \/ side.onnode THEN best
    ELSE IF node.volume = nullopt THEN [best EXCEPT !.error = "null volume"]
    ELSE IF ~CheckPlaneAgainstVolume(Positive(side.planenum), node.volume) THEN best
    ELSE MidBetter(best, Positive(side.planenum),
                   get_type(Plane(Positive(side.planenum))) < PLANE_ANYX,
                   SplitPlaneMetric(Plane(Positive(side.planenum)), node.bounds))

RECURSIVE MidLoop(_, _, _, _, _)
\* the candidate loop of ChooseMidPlaneFromList from candidate k on;
\* best = [anymetric, anyplane, axialmetric, axialplane, error]
MidLoop(brushes, node, idx, k, best) ==
    IF k > Len(idx) \/ best.error # "" THEN best
    ELSE MidLoop(brushes, node, idx, k + 1,
                 MidCandidate(node, brushes[idx[k][1]].sides[idx[k][2]], best))

\* a return statement that prefers the axial split only when the metrics tie
PreferSmallest(best) ==
    [plane |-> IF Has(best.axialplane) /\ best.axialmetric <= best.anymetric
               THEN best.axialplane ELSE best.anyplane,
     error |-> best.error]

\* the return statement of ChooseMidPlaneFromList: prefer the axial split
PreferAxial(best) ==
    [plane |-> IF Has(best.axialplane) THEN best.axialplane ELSE best.anyplane,
     error |-> best.error]

\* ChooseMidPlaneFromList: the best-balanced plane, axial preferred
ChooseMidPlaneFromList(brushes, node) ==
    PreferAxial(MidLoop(brushes, node, SideIndex(brushes), 1,
                        [anymetric |-> VECT_MAX, anyplane |-> nullopt,
                         axialmetric |-> VECT_MAX, axialplane |-> nullopt, error |-> ""]))

\* is some extent of the node larger than maxnodesize - epsilon?
NodeIsLarge(node) ==
    \E i \in Axes : (node.bounds.maxs[i] - node.bounds.mins[i]) * opts.epsilon[2]
                        > opts.maxnodesize * Scale * opts.epsilon[2] - opts.epsilon[1] * Scale

\* a quick decision in which either of the two triggers is enough
QuickDecisionEither(nbrushes, node, forced_quick_tree) ==
    IF Has(forced_quick_tree) THEN forced_quick_tree
    ELSE Some(\/ /\ opts.midsplitbrushfraction[1] # 0
                 /\ nbrushes * opts.midsplitbrushfraction[2]
                        > opts.midsplitbrushfraction[1] * opts.total_brushes
              \/ opts.maxnodesize >= 64 /\ NodeIsLarge(node))

\* does SelectSplitPlane go to ChooseMidPlaneFromList?  "quick" is the value
\* of forced_quick_tree after the decision block; nullopt.value() throws.
QuickDecision(nbrushes, node, forced_quick_tree) ==
    IF Has(forced_quick_tree) THEN forced_quick_tree
    ELSE IF opts.midsplitbrushfraction[1] # 0
    THEN \* fractionOfMap > midsplitbrushfraction
         Some(opts.total_brushes = 0
              \/ nbrushes * opts.midsplitbrushfraction[2]
                     > opts.midsplitbrushfraction[1] * opts.total_brushes)
    ELSE IF opts.maxnodesize >= 64 THEN Some(NodeIsLarge(node))
    ELSE nullopt

RECURSIVE SumField(_, _, _)
\* the sum of field f over the results r from brush b on
SumField(r, f, b) == IF b > Len(r) THEN 0 ELSE r[b][f] + SumField(r, f, b + 1)

\* how many of the results r have the bit set in s
CountBit(r, bit) == Cardinality({b \in 1..Len(r) : HasBit(r[b].s, bit)})

\* the value estimate of a candidate plane
CandidateValue(r, positive_planenum) ==
    5 * CountBit(r, PSIDE_FACING) - 5 * SumField(r, "numsplits", 1)
    - Abs(CountBit(r, PSIDE_FRONT) - CountBit(r, PSIDE_BACK))
    + (IF get_type(Plane(positive_planenum)) < PLANE_ANYX THEN 5 ELSE 0)
    - SumField(r, "epsilonbrush", 1) * 1000

\* a tested brush: testside written, and tested set on the sides of the plane
\* when the brush faces it
MarkTested(brush, s, positive_planenum) ==
    [brush EXCEPT
        !.testside = s,
        !.sides = IF HasBit(s, PSIDE_FACING)
                  THEN SeqOf([k \in 1..Len(brush.sides) |->
                          IF Positive(brush.sides[k].planenum) = positive_planenum
                          THEN [brush.sides[k] EXCEPT !.tested = TRUE]
                          ELSE brush.sides[k]])
                  ELSE brush.sides]

\* the candidate after the test loop; r[b] is what TestBrushToPlanenum gave
\* for brush b.  Every call resets *hintsplit, so the last call's value is
\* what remains.
TestedCandidate(brushes, side, positive_planenum, r) ==
    [brushes |-> SeqOf([b \in 1..Len(brushes) |-> MarkTested(brushes[b], r[b].s, positive_planenum)]),
     facing_with_splits |->
         \E b \in 1..Len(brushes) : r[b].numsplits # 0 /\ HasBit(r[b].s, PSIDE_FACING),
     hintsplit |-> r[Len(brushes)].hintsplit,
     value |-> IF r[Len(brushes)].hintsplit /\ ~is_hint(side) THEN -9999999
               ELSE CandidateValue(r, positive_planenum)]

\* one candidate of the heuristic mode classified against every brush:
\* the brushes with testside and tested written, and the candidate's value
TestCandidate(brushes, side) ==
    TestedCandidate(brushes, side, Positive(side.planenum),
        SeqOf([b \in 1..Len(brushes) |->
                  TestBrushToPlanenum(brushes[b], Positive(side.planenum), TRUE)]))

\* a pass order that looks at the detail brushes first
SkipSideDetailFirst(brush, side, pass) ==
    \/ (pass % 2 = 0) /\ ~is_any_detail(brush.mapbrush.contents)
    \/ (pass % 2 = 1) /\ is_any_detail(brush.mapbrush.contents)
    \/ side.bevel
    \/ side.w = NoWinding
    \/ side.onnode
    \/ side.tested
    \/ is_hintskip(side)
    \/ is_visible(side) # (pass < 2)

\* the sides a heuristic pass does not look at
SkipSide(brush, side, pass) ==
    \/ (pass % 2 = 1) /\ ~is_any_detail(brush.mapbrush.contents)
    \/ (pass % 2 = 0) /\ is_any_detail(brush.mapbrush.contents)
    \/ side.bevel
    \/ side.w = NoWinding
    \/ side.onnode
    \/ side.tested
    \/ is_hintskip(side)
    \/ is_visible(side) # (pass < 2)

\* test->side = test->testside for every brush
SaveSides(brushes) ==
    SeqOf([b \in 1..Len(brushes) |-> [brushes[b] EXCEPT !.side = brushes[b].testside]])

\* a search that lets a later candidate of equal value replace the best one
PassBetterLast(st, t, bs) ==
    IF t.facing_with_splits THEN [st EXCEPT !.error = "PSIDE_FACING with splits"]
    ELSE IF t.value >= st.bestvalue
    THEN [st EXCEPT !.brushes = SaveSides(t.brushes), !.bestside = bs, !.bestvalue = t.value]
    ELSE [st EXCEPT !.brushes = t.brushes]

\* the search state after the tested candidate t at index bs
PassBetter(st, t, bs) ==
    IF t.facing_with_splits THEN [st EXCEPT !.error = "PSIDE_FACING with splits"]
    ELSE IF t.value > st.bestvalue
    THEN [st EXCEPT !.brushes = SaveSides(t.brushes), !.bestside = bs, !.bestvalue = t.value]
    ELSE [st EXCEPT !.brushes = t.brushes]

\* one side of one heuristic pass; st = [brushes, bestside, bestvalue, error]
PassCandidate(st, n, pass, bs, side) ==
    IF SkipSide(st.brushes[bs[1]], side, pass) THEN st
    ELSE IF TriedParent(Positive(side.planenum), n) THEN [st EXCEPT !.error = "Tried parent"]
    ELSE IF nodes[n].volume = nullopt THEN [st EXCEPT !.error = "null volume"]
    ELSE IF ~CheckPlaneAgainstVolume(Positive(side.planenum), nodes[n].volume) THEN st
    ELSE PassBetter(st, TestCandidate(st.brushes, side), bs)

RECURSIVE PassLoop(_, _, _, _, _)
\* the brush and side loops of one heuristic pass from candidate k on
PassLoop(st, n, pass, idx, k) ==
    IF k > Len(idx) \/ st.error # "" THEN st
    ELSE PassLoop(PassCandidate(st, n, pass, idx[k], st.brushes[idx[k][1]].sides[idx[k][2]]),
                  n, pass, idx, k + 1)

RECURSIVE Passes(_, _, _)
\* the end of a pass: stop after the first pass with a winner
PassDone(st, n, pass) ==
    IF st.error # "" THEN st
    ELSE IF st.bestside # <<>>
    THEN [st EXCEPT !.detail_separator = (pass > 0) \/ st.detail_separator]
    ELSE Passes(st, n, pass + 1)

\* the pass loop of the heuristic mode
Passes(st, n, pass) ==
    IF pass >= 4 THEN st
    ELSE PassDone(PassLoop(st, n, pass, SideIndex(st.brushes), 1), n, pass)

\* what SelectSplitPlane returns and writes: the plane, the brushes (side,
\* testside and tested written), node.detail_separator, its counter increments
\* and the error it died of, if any
SelectResult(plane, brushes, detail_separator, midsplit, qbsp3, nonvis, error) ==
    [plane |-> plane, brushes |-> brushes, detail_separator |-> detail_separator,
     c_midsplit |-> midsplit, c_qbsp3 |-> qbsp3, c_nonvis |-> nonvis, error |-> error]

\* a return that leaves the tested flags as the passes set them
KeepTested(brushes) == brushes

\* clear all the tested flags
ClearTested(brushes) ==
    SeqOf([b \in 1..Len(brushes) |->
        [brushes[b] EXCEPT !.sides =
            SeqOf([k \in 1..Len(brushes[b].sides) |->
                [brushes[b].sides[k] EXCEPT !.tested = FALSE]])]])

\* the end of the heuristic mode returning the best side's planenum as it is
HeuristicResultRaw(st) ==
    IF st.error # ""
    THEN SelectResult(nullopt, st.brushes, st.detail_separator, 0, 0, 0, st.error)
    ELSE IF st.bestside = <<>>
    THEN SelectResult(nullopt, ClearTested(st.brushes), st.detail_separator, 0, 0, 0, "")
    ELSE SelectResult(
             Some(st.brushes[st.bestside[1]].sides[st.bestside[2]].planenum),
             ClearTested(st.brushes), st.detail_separator, 0, 1,
             IF is_visible(st.brushes[st.bestside[1]].sides[st.bestside[2]]) THEN 0 ELSE 1, "")

\* the end of the heuristic mode, the passes having left st
HeuristicResult(st) ==
    IF st.error # ""
    THEN SelectResult(nullopt, st.brushes, st.detail_separator, 0, 0, 0, st.error)
    ELSE IF st.bestside = <<>>
    THEN SelectResult(nullopt, ClearTested(st.brushes), st.detail_separator, 0, 0, 0, "")
    ELSE SelectResult(
             Some(Positive(st.brushes[st.bestside[1]].sides[st.bestside[2]].planenum)),
             ClearTested(st.brushes), st.detail_separator, 0, 1,
             IF is_visible(st.brushes[st.bestside[1]].sides[st.bestside[2]]) THEN 0 ELSE 1, "")

\* the heuristic mode of SelectSplitPlane
SelectHeuristic(brushes, n) ==
    HeuristicResult(Passes([brushes |-> brushes, bestside |-> <<>>, bestvalue |-> -99999,
                            error |-> "", detail_separator |-> nodes[n].detail_separator], n, 0))

\* b->side = TestBrushToPlanenum(b, mid_plane) for every brush
SidesOfMidPlane(brushes, mid_plane) ==
    SeqOf([b \in 1..Len(brushes) |->
        [brushes[b] EXCEPT !.side = TestBrushToPlanenum(brushes[b], mid_plane, FALSE).s]])

\* SelectSplitPlane after the midsplit block; mid is what
\* ChooseMidPlaneFromList returned, or no plane when it was not called
SelectAfterMid(brushes, n, mid) ==
    IF mid.error # ""
    THEN SelectResult(nullopt, brushes, nodes[n].detail_separator, 0, 0, 0, mid.error)
    ELSE IF Has(mid.plane)
    THEN SelectResult(mid.plane, SidesOfMidPlane(brushes, Val(mid.plane)),
                      nodes[n].detail_separator, 1, 0, 0, "")
    ELSE SelectHeuristic(brushes, n)

NoMidPlane == [plane |-> nullopt, error |-> ""]

\* SelectSplitPlane with the quick decision made; quick = nullopt is the
\* .value() of an empty optional
SelectQuick(brushes, n, quick) ==
    IF ~Has(quick)
    THEN SelectResult(nullopt, brushes, nodes[n].detail_separator, 0, 0, 0, "bad_optional_access")
    ELSE SelectAfterMid(brushes, n,
                        IF Val(quick) THEN ChooseMidPlaneFromList(brushes, nodes[n])
                        ELSE NoMidPlane)

\* SelectSplitPlane(brushes, node n, forced_quick_tree)
SelectSplitPlane(brushes, n, forced_quick_tree) ==
    IF Len(brushes) = 0
    THEN SelectResult(nullopt, brushes, nodes[n].detail_separator, 0, 0, 0, "")
    ELSE SelectQuick(brushes, n,
                     IF ~Has(forced_quick_tree) \/ Val(forced_quick_tree)
                     THEN QuickDecision(Len(brushes), nodes[n], forced_quick_tree)
                     ELSE Some(FALSE))

-----------------------------------------------------------------------------
(* The recursive builder *)

PLANENUM_LEAF == -1
SIDESPACE == 24

\* tree->create_node(): a value-initialised node_t (0 is the null node pointer)
create_node ==
    [is_leaf |-> FALSE, planenum |-> PLANENUM_LEAF, children |-> <<0, 0>>, parent |-> 0,
     bounds |-> EmptyBounds, volume |-> nullopt, contents |-> create_empty_contents,
     detail_separator |-> FALSE, original_brushes |-> <<>>]

\* a value-initialised bspstats_t; error is the fatal error the build died of
NewStats ==
    [c_nodes |-> 0, c_nonvis |-> 0, c_qbsp3 |-> 0, c_blocksplit |-> 0, c_midsplit |-> 0,
     c_leafs |-> 0, c_bogus |-> 0, c_brushesremoved |-> 0, c_brushesonesided |-> 0,
     c_tinyvolumes |-> 0, error |-> ""]

RECURSIVE CombineAll(_, _, _)
\* the combine_contents loop of LeafNode from brush i on
CombineAll(contents, brushes, i) ==
    IF i > Len(brushes) THEN contents
    ELSE CombineAll(combine_contents(contents, brushes[i].contents), brushes, i + 1)

\* LeafNode that overwrites the contents with each brush's instead of combining
LeafNodeLast(leafnode, brushes) ==
    [leafnode EXCEPT !.is_leaf = TRUE,
                     !.contents = IF brushes = <<>> THEN create_empty_contents
                                  ELSE brushes[Len(brushes)].contents,
                     !.original_brushes = SeqOf([b \in 1..Len(brushes) |-> original_brush(brushes[b])]),
                     !.volume = nullopt]

\* LeafNode: turn the node into a leaf holding the brushes' combined contents
LeafNode(leafnode, brushes) ==
    [leafnode EXCEPT !.is_leaf = TRUE,
                     !.contents = CombineAll(create_empty_contents, brushes, 1),
                     !.original_brushes = SeqOf([b \in 1..Len(brushes) |-> original_brush(brushes[b])]),
                     !.volume = nullopt]

\* SplitBrushList without the onnode marking
MarkNothing(brush, planenum) == brush

\* the onnode marking of SplitBrushList for a brush facing the split plane
MarkOnNode(brush, planenum) ==
    [brush EXCEPT !.sides = SeqOf([k \in 1..Len(brush.sides) |->
                                IF Positive(brush.sides[k].planenum) = planenum
                                THEN [brush.sides[k] EXCEPT !.onnode = TRUE]
                                ELSE brush.sides[k]])]

\* the list an unsplit brush is moved to
PlaceBrush(sides, brush) ==
    IF HasBit(sides, PSIDE_FRONT) THEN SplitResult(Some(brush), nullopt, 0, 0, 0, 0)
    ELSE IF HasBit(sides, PSIDE_BACK) THEN SplitResult(nullopt, Some(brush), 0, 0, 0, 0)
    ELSE SplitResult(nullopt, nullopt, 0, 0, 0, 0)

\* SplitBrushList that pushes a brush on both sides into both lists unsplit
SplitBrushListBoth(brush, planenum) ==
    IF brush.side = PSIDE_BOTH THEN SplitResult(Some(brush), Some(brush), 0, 0, 0, 0)
    ELSE PlaceBrush(brush.side,
                    IF HasBit(brush.side, PSIDE_FACING) THEN MarkOnNode(brush, planenum)
                    ELSE brush)

\* what SplitBrushList does with one brush:
\* [front, back: the brushes appended to result[0], result[1]; and the counters]
SplitBrushListOne(brush, planenum) ==
    IF brush.side = PSIDE_BOTH THEN SplitBrush(brush, planenum)
    ELSE PlaceBrush(brush.side,
                    IF HasBit(brush.side, PSIDE_FACING) THEN MarkOnNode(brush, planenum)
                    ELSE brush)

\* the two lists and the counters after the brushes of r are pushed back
PushBack(acc, r) ==
    SplitResult(acc.front \o r.front, acc.back \o r.back,
                acc.c_bogus + r.c_bogus,
                acc.c_brushesremoved + r.c_brushesremoved,
                acc.c_brushesonesided + r.c_brushesonesided,
                acc.c_tinyvolumes + r.c_tinyvolumes)

RECURSIVE SplitBrushListLoop(_, _, _, _)
\* the brush loop of SplitBrushList from brush i on; acc has the shape of SplitResult
\* with front and back being the two lists
SplitBrushListLoop(brushes, planenum, i, acc) ==
    IF i > Len(brushes) THEN acc
    ELSE SplitBrushListLoop(brushes, planenum, i + 1,
                            PushBack(acc, SplitBrushListOne(brushes[i], planenum)))

\* SplitBrushList(brushes, planenum): front = result[0], back = result[1]
SplitBrushList(brushes, planenum) ==
    SplitBrushListLoop(brushes, planenum, 1, SplitResult(<<>>, <<>>, 0, 0, 0, 0))

\* the children's bounds: the parent's, tightened on the axis of a +1 normal
ChildBounds(bounds, plane, child) ==
    IF \A i \in Axes : plane.normal[i] # 1 THEN bounds
    ELSE IF child = 0
    THEN [bounds EXCEPT !.mins[SetMin({i \in Axes : plane.normal[i] = 1})] = plane.dist]
    ELSE [bounds EXCEPT !.maxs[SetMin({i \in Axes : plane.normal[i] = 1})] = plane.dist]

\* a BuildTree_r invocation: spawned (g.run issued or called), waiting (in
\* g.wait) or done; brushes is the container it owns
Task(state, brushes) == [state |-> state, brushes |-> brushes]

\* the caller's brush objects after a task wrote to the brushes it holds:
\* the containers share the objects (bspbrush_t::ptr)
SyncOriginals(callers, held) ==
    SeqOf([i \in 1..Len(callers) |->
        IF \E j \in 1..Len(held) : held[j].id = callers[i].id
        THEN held[CHOOSE j \in 1..Len(held) : held[j].id = callers[i].id]
        ELSE callers[i]])

\* counters kept in plain ints: c_nodes and c_leafs are stored from the value
\* a task read when the build began, so increments of other tasks are lost
AddStatsRacy(st, sel, split, vol, nodes_inc, leafs_inc) ==
    [st EXCEPT !.c_nodes = IF nodes_inc > 0 THEN nodes_inc ELSE @,
               !.c_leafs = IF leafs_inc > 0 THEN leafs_inc ELSE @,
               !.c_midsplit = @ + sel.c_midsplit, !.c_qbsp3 = @ + sel.c_qbsp3,
               !.c_nonvis = @ + sel.c_nonvis,
               !.c_bogus = @ + split.c_bogus + vol.c_bogus,
               !.c_brushesremoved = @ + split.c_brushesremoved + vol.c_brushesremoved,
               !.c_brushesonesided = @ + split.c_brushesonesided + vol.c_brushesonesided,
               !.c_tinyvolumes = @ + split.c_tinyvolumes + vol.c_tinyvolumes]

\* the counters after a BuildTree_r step
AddStats(st, sel, split, vol, nodes_inc, leafs_inc) ==
    [st EXCEPT !.c_nodes = @ + nodes_inc, !.c_leafs = @ + leafs_inc,
               !.c_midsplit = @ + sel.c_midsplit, !.c_qbsp3 = @ + sel.c_qbsp3,
               !.c_nonvis = @ + sel.c_nonvis,
               !.c_bogus = @ + split.c_bogus + vol.c_bogus,
               !.c_brushesremoved = @ + split.c_brushesremoved + vol.c_brushesremoved,
               !.c_brushesonesided = @ + split.c_brushesonesided + vol.c_brushesonesided,
               !.c_tinyvolumes = @ + split.c_tinyvolumes + vol.c_tinyvolumes]

NoSplit == SplitResult(nullopt, nullopt, 0, 0, 0, 0)

\* a g.wait() that returns as soon as one of the child tasks is done
JoinableEither(n) ==
    /\ tasks[n].state = "waiting"
    /\ tasks[2 * n].state = "done" \/ tasks[2 * n + 1].state = "done"

\* g.wait() of task n can return: both child tasks are done
Joinable(n) ==
    /\ tasks[n].state = "waiting"
    /\ tasks[2 * n].state = "done"
    /\ tasks[2 * n + 1].state = "done"

\* the task a single thread runs next: a g.wait() that cannot return yet takes
\* the task spawned last.  A child's id is larger than the id of every task spawned before it.
LastSpawned == SetMax({m \in DOMAIN tasks : tasks[m].state = "spawned"})

\* a child node that is not given its part of the parent's volume
ChildNodeNoVolume(n, bounds, volume) ==
    [create_node EXCEPT !.parent = n, !.bounds = bounds]

\* a child node whose parent pointer is left null
ChildNodeNoParent(n, bounds, volume) ==
    [create_node EXCEPT !.bounds = bounds, !.volume = volume]

\* a child node of node n
ChildNode(n, bounds, volume) ==
    [create_node EXCEPT !.parent = n, !.bounds = bounds, !.volume = volume]

\* BuildTree_r dies of a fatal error in SelectSplitPlane
BuildError(sel) ==
    /\ pc' = "error"
    /\ stats' = [stats EXCEPT !.error = sel.error]
    /\ UNCHANGED <<nodes, tasks, brushlist>>

\* BuildTree_r without a split plane: this is a leaf node
BuildLeaf(n, sel) ==
    /\ nodes' = [nodes EXCEPT ![n] = LeafNode([nodes[n] EXCEPT !.detail_separator =
                                                    sel.detail_separator], sel.brushes)]
    /\ tasks' = [tasks EXCEPT ![n] = Task("done", sel.brushes)]
    /\ stats' = AddStats(stats, sel, NoSplit, NoSplit, 0, 1)
    /\ brushlist' = SyncOriginals(brushlist, sel.brushes)
    /\ pc' = pc

\* BuildTree_r that hands both children the node's whole brush list and volume
BuildSplitWhole(n, sel, bestplane, children, children_volumes) ==
    /\ nodes' = (2 * n :> ChildNode(n, nodes[n].bounds, nodes[n].volume))
                @@ (2 * n + 1 :> ChildNode(n, nodes[n].bounds, nodes[n].volume))
                @@ [nodes EXCEPT ![n] = [nodes[n] EXCEPT
                                            !.detail_separator = sel.detail_separator,
                                            !.planenum = bestplane,
                                            !.children = <<2 * n, 2 * n + 1>>,
                                            !.volume = nullopt]]
    /\ tasks' = (2 * n :> Task("spawned", sel.brushes))
                @@ (2 * n + 1 :> Task("spawned", sel.brushes))
                @@ [tasks EXCEPT ![n] = Task("waiting", <<>>)]
    /\ stats' = AddStats(stats, sel, NoSplit, NoSplit, 1, 0)
    /\ brushlist' = SyncOriginals(brushlist, sel.brushes)
    /\ pc' = pc

\* BuildTree_r that gives child 0 the back part of the volume and child 1 the front part
BuildSplitSwapped(n, sel, bestplane, children, children_volumes) ==
    /\ nodes' = (2 * n :> ChildNode(n, ChildBounds(nodes[n].bounds, Plane(bestplane), 0),
                                    children_volumes.back))
                @@ (2 * n + 1 :> ChildNode(n, ChildBounds(nodes[n].bounds, Plane(bestplane), 1),
                                           children_volumes.front))
                @@ [nodes EXCEPT ![n] = [nodes[n] EXCEPT
                                            !.detail_separator = sel.detail_separator,
                                            !.planenum = bestplane,
                                            !.children = <<2 * n, 2 * n + 1>>,
                                            !.volume = nullopt]]
    /\ tasks' = (2 * n :> Task("spawned", children.front))
                @@ (2 * n + 1 :> Task("spawned", children.back))
                @@ [tasks EXCEPT ![n] = Task("waiting", <<>>)]
    /\ stats' = AddStats(stats, sel, children, children_volumes, 1, 0)
    /\ brushlist' = SyncOriginals(SyncOriginals(brushlist, sel.brushes),
                                  children.front \o children.back)
    /\ pc' = pc

\* BuildTree_r with a split plane: this is a splitplane node
BuildSplit(n, sel, bestplane, children, children_volumes) ==
    /\ nodes' = (2 * n :> ChildNode(n, ChildBounds(nodes[n].bounds, Plane(bestplane), 0),
                                    children_volumes.front))
                @@ (2 * n + 1 :> ChildNode(n, ChildBounds(nodes[n].bounds, Plane(bestplane), 1),
                                           children_volumes.back))
                @@ [nodes EXCEPT ![n] = [nodes[n] EXCEPT
                                            !.detail_separator = sel.detail_separator,
                                            !.planenum = bestplane,
                                            !.children = <<2 * n, 2 * n + 1>>,
                                            !.volume = nullopt]]
    /\ tasks' = (2 * n :> Task("spawned", children.front))
                @@ (2 * n + 1 :> Task("spawned", children.back))
                @@ [tasks EXCEPT ![n] = Task("waiting", <<>>)]
    /\ stats' = AddStats(stats, sel, children, children_volumes, 1, 0)
    /\ brushlist' = SyncOriginals(SyncOriginals(brushlist, sel.brushes),
                                  children.front \o children.back)
    /\ pc' = pc

\* BuildTree_r on node n up to the point where it returns (leaf) or has
\* spawned both child tasks and waits for them
BuildTree_r(n) ==
    /\ pc = "BuildTree"
    /\ tasks[n].state = "spawned"
    /\ opts.threads = 1 => n = LastSpawned /\ ~\E m \in DOMAIN tasks : Joinable(m)
    /\ \E sel \in {SelectSplitPlane(tasks[n].brushes, n, opts.forced_quick_tree)} :
          IF sel.error # "" THEN BuildError(sel)
          ELSE IF ~Has(sel.plane) THEN BuildLeaf(n, sel)
          ELSE \E children \in {SplitBrushList(sel.brushes, Val(sel.plane))},
                  children_volumes \in {SplitBrush(Val(nodes[n].volume), Val(sel.plane))} :
                  BuildSplit(n, sel, Val(sel.plane), children, children_volumes)
    /\ UNCHANGED <<mapbrushes, opts, list, b1_it, sb>>

\* g.wait() of BuildTree_r on node n returns: both child tasks are done
JoinChildren(n) ==
    /\ pc = "BuildTree"
    /\ Joinable(n)
    /\ tasks' = [tasks EXCEPT ![n].state = "done"]
    /\ UNCHANGED <<pc, mapbrushes, opts, brushlist, nodes, stats, list, b1_it, sb>>

\* mapentity_t::bounds of the entity BrushBSP is called for
EntityBounds == [mins |-> <<0, 0, 0>>, maxs |-> <<0, 0, 0>>]

\* BrushBSP with an empty brush list that leaves the leaves' parent null
BrushBSPEmptyNoParent ==
    /\ pc = "BrushBSP"
    /\ brushlist = <<>>
    /\ nodes' = (1 :> [create_node EXCEPT !.bounds = EntityBounds, !.planenum = 0,
                                          !.children = <<2, 3>>])
                @@ (2 :> [create_node EXCEPT !.is_leaf = TRUE,
                                             !.contents = create_empty_contents])
                @@ (3 :> [create_node EXCEPT !.is_leaf = TRUE,
                                             !.contents = create_empty_contents])
    /\ pc' = "done"
    /\ UNCHANGED <<mapbrushes, opts, brushlist, tasks, stats, list, b1_it, sb>>

\* BrushBSP with an empty brush list: a head node and two empty leaves
BrushBSPEmpty ==
    /\ pc = "BrushBSP"
    /\ brushlist = <<>>
    /\ nodes' = (1 :> [create_node EXCEPT !.bounds = EntityBounds, !.planenum = 0,
                                          !.children = <<2, 3>>])
                @@ (2 :> [create_node EXCEPT !.is_leaf = TRUE,
                                             !.contents = create_empty_contents, !.parent = 1])
                @@ (3 :> [create_node EXCEPT !.is_leaf = TRUE,
                                             !.contents = create_empty_contents, !.parent = 1])
    /\ pc' = "done"
    /\ UNCHANGED <<mapbrushes, opts, brushlist, tasks, stats, list, b1_it, sb>>

RECURSIVE TreeBounds(_, _)
\* tree->bounds: the union of the bounds of brushes i..
TreeBounds(brushes, i) ==
    IF i > Len(brushes) THEN EmptyBounds
    ELSE UnionBounds(brushes[i].bounds, TreeBounds(brushes, i + 1))

\* BrushBSP with brushes: create the head node and call BuildTree_r on it
BrushBSPStart ==
    /\ pc = "BrushBSP"
    /\ brushlist # <<>>
    /\ LET bounds == Grow(TreeBounds(brushlist, 1), SIDESPACE * Scale)
       IN  nodes' = (1 :> [create_node EXCEPT !.volume = Some(BrushFromBounds(bounds)),
                                              !.bounds = bounds])
    /\ tasks' = (1 :> Task("spawned", brushlist))
    /\ stats' = NewStats
    /\ pc' = "BuildTree"
    /\ UNCHANGED <<mapbrushes, opts, brushlist, list, b1_it, sb>>

\* BuildTree_r on the head node has returned: reset onnode and return the tree
BrushBSPReturn ==
    /\ pc = "BuildTree"
    /\ tasks[1].state = "done"
    /\ brushlist' = SeqOf([i \in 1..Len(brushlist) |->
                        [brushlist[i] EXCEPT !.sides =
                            SeqOf([k \in 1..Len(brushlist[i].sides) |->
                                [brushlist[i].sides[k] EXCEPT !.onnode = FALSE]])]])
    /\ pc' = "done"
    /\ UNCHANGED <<mapbrushes, opts, nodes, tasks, stats, list, b1_it, sb>>

-----------------------------------------------------------------------------
(* ChopBrushes *)

\* BrushGE with the detail test the wrong way round: structural never bites detail
BrushGEStructural(b1, b2) ==
    IF ~is_any_detail(b1.mapbrush.contents) /\ is_any_detail(b2.mapbrush.contents) THEN FALSE
    ELSE is_solid(b1.mapbrush.contents)

\* BrushGE: is b1 allowed to bite b2?
BrushGE(b1, b2) ==
    IF is_any_detail(b1.mapbrush.contents) /\ ~is_any_detail(b2.mapbrush.contents) THEN FALSE
    ELSE is_solid(b1.mapbrush.contents)

\* BrushesDisjoint: do the two brushes definitely not intersect?
BrushesDisjoint(a, b) ==
    \/ disjoint_or_touching(a.bounds, b.bounds)
    \/ \E i \in 1..Len(a.sides) : \E j \in 1..Len(b.sides) :
          a.sides[i].planenum = Xor1(b.sides[j].planenum)

RECURSIVE SubtractLoop(_, _, _, _, _)
\* SubtractBrush after the split by side i of b gave r
SubtractSplit(a, b, out, i, r) ==
    IF ~Has(r.back) THEN <<a>>
    ELSE SubtractLoop(a, b, Val(r.back), r.front \o out, i + 1)

\* the side loop of SubtractBrush from side i of b on
SubtractLoop(a, b, in, out, i) ==
    IF i > Len(b.sides) THEN out
    ELSE SubtractSplit(a, b, out, i, SplitBrush(in, b.sides[i].planenum))

\* SubtractBrush: the brushes that remain after b is subtracted from a
SubtractBrush(a, b) == SubtractLoop(a, b, a, <<>>, 1)

\* std::numeric_limits<size_t>::max(), larger than the size of any list
SIZE_MAX == 2147483647

\* a value-initialised chopstats_t
NewChopStats == [c_swallowed |-> 0, c_from_split |-> 0]

\* list.erase of the element at index i
Erase(lst, i) == SubSeq(lst, 1, i - 1) \o SubSeq(lst, i + 1, Len(lst))

\* is the list the single brush b itself? (sub.size() == 1 && sub.front() == b)
IsJust(sub, b) == Len(sub) = 1 /\ sub[1].id = b.id

\* what one run of the inner loop body does: continue with the next b2, or
\* change the list and goto newlist with the given b1_it
Continue == [restart |-> FALSE]
Restart(lst, it, swallowed, from_split) ==
    [restart |-> TRUE, list |-> lst, b1_it |-> it, c_swallowed |-> swallowed,
     c_from_split |-> from_split]

\* the end of the inner loop body skipping when either subtraction fragments
ChopAcceptEither(lst, i, j, sub, sub2, c1, c2) ==
    IF sub = <<>> /\ sub2 = <<>> THEN Continue
    ELSE IF c1 > 1 \/ c2 > 1 THEN Continue
    ELSE IF c1 < c2 THEN Restart(Erase(lst \o sub, i), i, 0, Len(sub))
    ELSE Restart(Erase(lst \o sub2, j), i, 0, Len(sub2))

\* the end of the inner loop body without the anti-explosion guard
ChopAcceptAlways(lst, i, j, sub, sub2, c1, c2) ==
    IF sub = <<>> /\ sub2 = <<>> THEN Continue
    ELSE IF c1 < c2 THEN Restart(Erase(lst \o sub, i), i, 0, Len(sub))
    ELSE Restart(Erase(lst \o sub2, j), i, 0, Len(sub2))

\* the end of the inner loop body with a guard that only counts the
\* subtractions that were made
ChopAcceptAllowed(lst, i, j, sub, sub2, c1, c2) ==
    IF sub = <<>> /\ sub2 = <<>> THEN Continue
    ELSE IF c1 > 1 /\ c2 > 1 /\ c1 # SIZE_MAX /\ c2 # SIZE_MAX THEN Continue
    ELSE IF c1 < c2 THEN Restart(Erase(lst \o sub, i), i, 0, Len(sub))
    ELSE Restart(Erase(lst \o sub2, j), i, 0, Len(sub2))

\* the end of the inner loop body: accept a subtraction unless it fragments
ChopAccept(lst, i, j, sub, sub2, c1, c2) ==
    IF sub = <<>> /\ sub2 = <<>> THEN Continue
    ELSE IF c1 > 1 /\ c2 > 1 THEN Continue
    ELSE IF c1 < c2 THEN Restart(Erase(lst \o sub, i), i, 0, Len(sub))
    ELSE Restart(Erase(lst \o sub2, j), i, 0, Len(sub2))

\* the inner loop body from the second BrushGE test on; ge is BrushGE(b1, b2)
\* and sub2 is b2 - b1 when b1 may bite
ChopSecond(lst, i, j, sub, c1, ge, sub2) ==
    IF ge /\ IsJust(sub2, lst[j]) THEN Continue
    ELSE IF ge /\ sub2 = <<>> THEN Restart(Erase(lst, j), i, 1, 0)
    ELSE ChopAccept(lst, i, j, sub, sub2, c1, IF ge THEN Len(sub2) ELSE SIZE_MAX)

\* the inner loop body from the first BrushGE test on; ge is BrushGE(b2, b1)
\* and sub is b1 - b2 when b2 may bite
ChopFirst(lst, i, j, ge, sub) ==
    IF ge /\ IsJust(sub, lst[i]) THEN Continue
    ELSE IF ge /\ sub = <<>> THEN Restart(Erase(lst, i), i, 1, 0)
    ELSE ChopSecond(lst, i, j, sub, IF ge THEN Len(sub) ELSE SIZE_MAX,
                    BrushGE(lst[i], lst[j]),
                    IF BrushGE(lst[i], lst[j]) THEN SubtractBrush(lst[j], lst[i]) ELSE <<>>)

\* the inner loop body for b1 = lst[i] and b2 = lst[j]
ChopPair(lst, i, j) ==
    IF BrushesDisjoint(lst[i], lst[j]) THEN Continue
    ELSE ChopFirst(lst, i, j, BrushGE(lst[j], lst[i]),
                   IF BrushGE(lst[j], lst[i]) THEN SubtractBrush(lst[i], lst[j]) ELSE <<>>)

RECURSIVE ChopInner(_, _, _)
\* the inner loop after the body ran for b2 = lst[j]
ChopNext(lst, i, j, r) == IF r.restart THEN r ELSE ChopInner(lst, i, j + 1)

\* the inner loop for b1 = lst[i] from b2 = lst[j] on
ChopInner(lst, i, j) ==
    IF j > Len(lst) THEN Continue ELSE ChopNext(lst, i, j, ChopPair(lst, i, j))

\* ChopBrushes up to the newlist label: move the brushes to the list
ChopStart ==
    /\ pc = "ChopBrushes"
    /\ list' = brushlist
    /\ brushlist' = <<>>
    /\ b1_it' = 1
    /\ stats' = NewChopStats
    /\ pc' = "newlist"
    /\ UNCHANGED <<mapbrushes, opts, nodes, tasks, sb>>

\* at newlist with an empty list: clear the output and return
ChopEmpty ==
    /\ pc = "newlist"
    /\ list = <<>>
    /\ brushlist' = <<>>
    /\ pc' = "done"
    /\ UNCHANGED <<mapbrushes, opts, nodes, tasks, stats, list, b1_it, sb>>

\* a goto newlist that starts the outer loop again at the head of the list
ChopRestartFromHead(r) ==
    /\ list' = r.list
    /\ b1_it' = 1
    /\ stats' = [c_swallowed |-> stats.c_swallowed + r.c_swallowed,
                 c_from_split |-> stats.c_from_split + r.c_from_split]

\* the outer loop changes the list as r says and goes to newlist
ChopRestart(r) ==
    /\ list' = r.list
    /\ b1_it' = r.b1_it
    /\ stats' = [c_swallowed |-> stats.c_swallowed + r.c_swallowed,
                 c_from_split |-> stats.c_from_split + r.c_from_split]

\* one iteration of the outer loop: b1 = list[b1_it] against every later brush,
\* until the list changes (goto newlist) or b1 is done (b1_it = next)
ChopStep ==
    /\ pc = "newlist"
    /\ list # <<>>
    /\ b1_it <= Len(list)
    /\ \E r \in {ChopInner(list, b1_it, b1_it + 1)} :
          IF r.restart THEN ChopRestart(r)
          ELSE b1_it' = b1_it + 1 /\ UNCHANGED <<list, stats>>
    /\ UNCHANGED <<pc, mapbrushes, opts, brushlist, nodes, tasks, sb>>

\* the outer loop is over: move the list to the output
ChopReturn ==
    /\ pc = "newlist"
    /\ list # <<>>
    /\ b1_it > Len(list)
    /\ brushlist' = list
    /\ pc' = "done"
    /\ UNCHANGED <<mapbrushes, opts, nodes, tasks, stats, list, b1_it, sb>>

-----------------------------------------------------------------------------
(* Inputs *)

\* coordinates (in units) the harness draws boxes and planes from: 0, 0.05,
\* 0.1, 0.15, 0.2 map units, then whole map units
CoordSeq == <<0, 1, 2, 3, 4, 40, 80, 120, 160>>

\* how many entries of CoordSeq the SplitBrush harness uses
NSplitCoords == 7

SplitCoords == {CoordSeq[i] : i \in 1..NSplitCoords}

\* a box brush as the map loader hands it over: six visible sides
BoxBrush(id, mins, maxs, contents) ==
    [BrushFromBounds([mins |-> mins, maxs |-> maxs]) EXCEPT
        !.id = id, !.contents = contents, !.mapbrush = [contents |-> contents],
        !.sides = SeqOf([k \in 1..6 |-> [@[k] EXCEPT !.visible = TRUE]])]

\* qbsp_options with the defaults the model uses
DefaultOptions ==
    [forced_quick_tree |-> nullopt, midsplitbrushfraction |-> <<0, 1>>, maxnodesize |-> 0,
     epsilon |-> <<1, 10000>>, worldextent |-> BOGUS_RANGE * Scale, microvolume |-> 0,
     total_brushes |-> 0, threads |-> 1]

Idle == "idle"

\* the map brushes a list of brushes was loaded from: their extent and contents
MapBrushesOf(brushes) ==
    SeqOf([i \in 1..Len(brushes) |->
              [bounds |-> brushes[i].bounds, contents |-> brushes[i].mapbrush.contents]])

-----------------------------------------------------------------------------
(* SpecSplit: SplitBrush applied to one brush and one plane *)

\* the boxes of the harness: x extent and y extent from SplitCoords, z fixed
SplitInputs ==
    {BoxBrush(<<1>>, <<x0, 0, 0>>, <<x1, y1, 40>>, Contents(CONTENTS_SOLID, 0)) :
        <<x0, x1, y1>> \in {t \in SplitCoords \X SplitCoords \X {3, 40} : t[1] < t[2]}}

\* the planes of the harness: x = d and its flip, and one y plane
SplitPlanes ==
    {add_or_find_plane([normal |-> <<s, 0, 0>>, den |-> 1, dist |-> s * d]) : s \in {1, -1}, d \in SplitCoords}
    \cup {add_or_find_plane([normal |-> <<0, 1, 0>>, den |-> 1, dist |-> 2])}

InitSplit ==
    /\ pc = "SplitBrush"
    /\ opts \in {[DefaultOptions EXCEPT !.worldextent = we, !.microvolume = mv] :
                    we \in {BOGUS_RANGE * Scale, 3, 40}, mv \in {0, Scale * Scale * Scale}}
    /\ sb \in {[brush |-> b, planenum |-> p, result |-> nullopt] :
                    b \in SplitInputs, p \in SplitPlanes}
    /\ mapbrushes = MapBrushesOf(<<sb.brush>>)
    /\ brushlist = <<>>
    /\ nodes = <<>>
    /\ tasks = <<>>
    /\ stats = NewStats
    /\ list = <<>>
    /\ b1_it = 0

\* call SplitBrush on the harness input
CallSplitBrush ==
    /\ pc = "SplitBrush"
    /\ sb.result = nullopt
    /\ sb' = [sb EXCEPT !.result = Some(SplitBrush(sb.brush, sb.planenum))]
    /\ UNCHANGED <<pc, mapbrushes, opts, brushlist, nodes, tasks, stats, list, b1_it>>

NextSplit == CallSplitBrush

SpecSplit == InitSplit /\ [][NextSplit]_vars

-----------------------------------------------------------------------------
(* SpecChop: ChopBrushes on a brush list *)

\* a cube brush with corners <<lo, lo, lo>> and <<hi, hi, hi>> map units
CubeAt(id, lo, hi, contents) ==
    BoxBrush(<<id>>, <<lo * Scale, lo * Scale, lo * Scale>>,
             <<hi * Scale, hi * Scale, hi * Scale>>, contents)

\* a brush spanning [lo, hi] map units in x and [0, 64] in y and z
SlabAt(id, lo, hi, contents) ==
    BoxBrush(<<id>>, <<lo * Scale, 0, 0>>, <<hi * Scale, 64 * Scale, 64 * Scale>>, contents)

\* the brushes ChopBrushes is run on: the cubes of S3 (1, 2), the cubes of S4
\* (3, 4), water brushes, and solid slabs
ChopBoxes ==
    << CubeAt(1, 0, 64, Contents(CONTENTS_SOLID, 0)),
       CubeAt(2, 32, 96, Contents(CONTENTS_SOLID, 0)),
       CubeAt(3, 0, 128, Contents(CONTENTS_SOLID, 0)),
       CubeAt(4, 16, 48, Contents(CONTENTS_SOLID, CFLAGS_DETAIL)),
       CubeAt(5, 32, 96, Contents(CONTENTS_WATER, 0)),
       SlabAt(6, 32, 96, Contents(CONTENTS_WATER, 0)),
       SlabAt(7, 48, 80, Contents(CONTENTS_SOLID, 0)),
       SlabAt(8, 80, 100, Contents(CONTENTS_SOLID, 0)),
       BoxBrush(<<9>>, <<64 * Scale - 1, 0, 0>>, <<80 * Scale, 64 * Scale, 64 * Scale>>,
                Contents(CONTENTS_SOLID, 0)),
       SlabAt(10, 16, 48, Contents(CONTENTS_SOLID, CFLAGS_DETAIL)) >>

\* how many of the ChopBoxes the lists are made of
NChopBoxes == 9

\* the lists of no, one, two and three distinct brushes, in every order
ChopLists ==
    LET B == 1..NChopBoxes
    IN  {<<>>} \cup {<<a>> : a \in B}
               \cup {<<a, b>> : <<a, b>> \in {p \in B \X B : p[1] # p[2]}}
               \cup {<<a, b, c>> : <<a, b, c>> \in
                        {t \in B \X B \X B : t[1] # t[2] /\ t[1] # t[3] /\ t[2] # t[3]}}

InitChop ==
    /\ pc = "ChopBrushes"
    /\ brushlist \in {SeqOf([i \in 1..Len(l) |-> ChopBoxes[l[i]]]) : l \in ChopLists}
    /\ mapbrushes = MapBrushesOf(brushlist)
    /\ opts = DefaultOptions
    /\ nodes = <<>>
    /\ tasks = <<>>
    /\ stats = NewChopStats
    /\ list = <<>>
    /\ b1_it = 1
    /\ sb = Idle

NextChop == ChopStart \/ ChopEmpty \/ ChopStep \/ ChopReturn

SpecChop == InitChop /\ [][NextChop]_vars

-----------------------------------------------------------------------------
(* Spec: BrushBSP on a brush list, the subtree tasks interleaved *)

Solid == Contents(CONTENTS_SOLID, 0)
DetailSolid == Contents(CONTENTS_SOLID, CFLAGS_DETAIL)
Water == Contents(CONTENTS_WATER, 0)

\* a cube brush of edge 2 map units with its minimum corner at <<x, y, z>> map units
Cube(id, x, y, z, contents) ==
    BoxBrush(<<id>>, <<x * Scale, y * Scale, z * Scale>>,
             <<(x + 2) * Scale, (y + 2) * Scale, (z + 2) * Scale>>, contents)

\* the same brush with every side invisible (e.g. clip-textured)
Invisible(brush) ==
    [brush EXCEPT !.sides = SeqOf([k \in 1..Len(brush.sides) |-> [brush.sides[k] EXCEPT !.visible = FALSE]])]

\* the brush lists BrushBSP is run on
BuildLists ==
    << <<>>,
       <<Cube(1, 0, 0, 0, Solid)>>,
       <<Cube(1, 0, 0, 0, Solid), Cube(2, 4, 0, 0, Solid)>>,
       <<Cube(1, 0, 0, 0, Solid), Cube(2, 2, 1, 0, DetailSolid)>>,
       <<Cube(1, 0, 0, 0, Water), Cube(2, 1, 1, 1, Solid)>>,
       <<Invisible(Cube(1, 0, 0, 0, Solid)), Cube(2, 0, 4, 0, Water)>>,
       <<BoxBrush(<<1>>, <<0, 0, 0>>, <<18 * Scale, 2 * Scale, 2 * Scale>>, Solid)>>,
       <<Cube(1, 0, 0, 0, Solid), Cube(2, 0, 0, 1, Water), Cube(3, 1, 0, 0, DetailSolid)>> >>

\* how many of the BuildLists are run
NBuildLists == 7

\* the option sets BrushBSP is run with: forced_quick_tree, and
\* <<midsplitbrushfraction, maxnodesize>>
BuildOptions ==
    {[DefaultOptions EXCEPT !.forced_quick_tree = m[1], !.midsplitbrushfraction = m[2],
                            !.maxnodesize = m[3]] :
        m \in {<<nullopt, <<0, 1>>, 64>>, <<nullopt, <<0, 1>>, 0>>, <<nullopt, <<1, 2>>, 1024>>,
               <<Some(TRUE), <<0, 1>>, 1024>>, <<Some(FALSE), <<0, 1>>, 1024>>}}

\* brush lists of up to this many brushes are also built with two threads
ParallelBrushes == 1

\* two overlapping brushes, built with two threads by the heuristic alone:
\* the plane x = 2 splits the second brush and both subtrees get brushes
OverlappingPair == <<Cube(1, 0, 0, 0, Solid), Cube(2, 1, 0, 0, Water)>>

HeuristicOptions == [DefaultOptions EXCEPT !.forced_quick_tree = Some(FALSE)]

Init ==
    /\ pc = "BrushBSP"
    /\ \/ /\ brushlist \in {BuildLists[i] : i \in 1..NBuildLists}
          /\ opts \in {[o EXCEPT !.total_brushes = Len(brushlist) + 1, !.threads = t] :
                          o \in BuildOptions,
                          t \in IF Len(brushlist) <= ParallelBrushes THEN {1, 2} ELSE {1}}
       \/ /\ brushlist = OverlappingPair
          /\ opts = [HeuristicOptions EXCEPT !.total_brushes = Len(brushlist) + 1,
                                             !.threads = 2]
    /\ mapbrushes = MapBrushesOf(brushlist)
    /\ nodes = <<>>
    /\ tasks = <<>>
    /\ stats = NewStats
    /\ list = <<>>
    /\ b1_it = 0
    /\ sb = Idle

Next ==
    \/ BrushBSPEmpty
    \/ BrushBSPStart
    \/ \E n \in DOMAIN tasks : BuildTree_r(n)
    \/ \E n \in DOMAIN tasks : JoinChildren(n)
    \/ BrushBSPReturn

Spec == Init /\ [][Next]_vars


-----------------------------------------------------------------------------
(* Properties of BrushBSP (Spec) *)

Finished == pc = "done"

\* a leaf: is_leaf and no children
LeafShape(n) == nodes[n].is_leaf /\ nodes[n].children = <<0, 0>>

\* an interior node: two distinct children in the arena, each pointing back
InteriorShape(n) ==
    /\ ~nodes[n].is_leaf
    /\ nodes[n].children[1] # nodes[n].children[2]
    /\ \A c \in 1..2 : /\ nodes[n].children[c] \in DOMAIN nodes
                       /\ nodes[nodes[n].children[c]].parent = n

\* C1: in the tree BrushBSP returns, for every input list and every
\* interleaving of the subtree tasks, each node is a leaf without children or
\* an interior node with exactly two non-null children whose parent pointer
\* refers to it.
C1_TreeShape ==
    Finished => \A n \in DOMAIN nodes : LeafShape(n) \/ InteriorShape(n)

\* a tree of depth two or more returned by a build with two threads
C1_Witness ==
    /\ Finished
    /\ opts.threads = 2
    /\ \E n \in DOMAIN nodes : n >= 4 /\ InteriorShape(n) /\ InteriorShape(nodes[n].parent)

RECURSIVE Ancestors(_)
\* the nodes on the path from the parent of node n to the root
Ancestors(n) == IF nodes[n].parent = 0 THEN {} ELSE {nodes[n].parent} \cup Ancestors(nodes[n].parent)

\* C2: for every node of the tree being built, its plane index with the low
\* bit cleared differs from that of every ancestor on the root path, in
\* midsplit and heuristic mode alike, and the build never dies of the fatal
\* "Tried parent" check.
C2_PlaneUniqueness ==
    /\ stats.error # "Tried parent"
    /\ \A n \in DOMAIN nodes : nodes[n].planenum # PLANENUM_LEAF =>
          \A a \in Ancestors(n) : Positive(nodes[a].planenum) # Positive(nodes[n].planenum)

\* an interior node with two interior ancestors, planes chosen in both modes
C2_Witness ==
    /\ stats.c_midsplit > 0
    /\ stats.c_qbsp3 > 0
    /\ \E n \in DOMAIN nodes : /\ nodes[n].planenum # PLANENUM_LEAF
                               /\ Cardinality(Ancestors(n)) >= 2

\* the planes of the sides of a brush that are no bevel and not marked onnode
SplitterPlanes(brush) ==
    {Positive(brush.sides[k].planenum) :
        k \in {j \in 1..Len(brush.sides) : ~brush.sides[j].bevel /\ ~brush.sides[j].onnode}}

\* the candidate planes at a node: the planes of the sides of its brushes
\* that are no bevel, are not marked onnode and split the node's volume in two
CandidatePlanes(brushes, volume) ==
    {p \in UNION {SplitterPlanes(brushes[i]) : i \in 1..Len(brushes)} :
        Has(volume) /\ BothHalves(SplitBrush(Val(volume), p))}

\* BuildTree_r on node n has just made it an interior node
Splits(n) == tasks[n].state = "spawned" /\ tasks'[n].state = "waiting"

\* is the set of candidate planes of the child strictly smaller than the parent's?
StrictlyFewer(child_brushes, child_volume, brushes, volume) ==
    /\ CandidatePlanes(child_brushes, child_volume) \subseteq CandidatePlanes(brushes, volume)
    /\ CandidatePlanes(child_brushes, child_volume) # CandidatePlanes(brushes, volume)

\* at a node that becomes interior the candidate planes of each child are a
\* proper subset of the node's
Shrinks ==
    \A n \in DOMAIN tasks : Splits(n) =>
        \A c \in {2 * n, 2 * n + 1} :
            \E child_brushes \in {tasks'[c].brushes} : \E child_volume \in {nodes'[c].volume} :
                StrictlyFewer(child_brushes, child_volume, tasks[n].brushes, nodes[n].volume)

\* BrushBSP has returned the tree, or died of a fatal error
Ended == pc \in {"done", "error"}

\* a step of the build can be taken: BrushBSP is about to start or to return,
\* a spawned task can run, or a g.wait() can return
CanStep ==
    \/ pc = "BrushBSP"
    \/ /\ pc = "BuildTree"
       /\ \/ tasks[1].state = "done"
          \/ \E n \in DOMAIN tasks : tasks[n].state = "spawned" \/ Joinable(n)

\* C3: the builder recursion terminates: at every node that becomes interior,
\* in midsplit and heuristic mode, the set of candidate planes of each child
\* is strictly smaller than the node's, and a build that has not ended can
\* always take a step, so every branch ends in a leaf after finitely many levels.
C3_Terminates == [][Shrinks]_vars /\ [](Ended \/ CanStep)

\* a finished tree whose planes were chosen in both modes, three levels deep
C3_Witness ==
    /\ Finished
    /\ stats.c_midsplit > 0
    /\ stats.c_qbsp3 > 0
    /\ \E n \in DOMAIN nodes : LeafShape(n) /\ Cardinality(Ancestors(n)) >= 3

RECURSIVE FoldContents(_)
\* combine_contents folded over a list of brushes from the left, from empty
FoldContents(brushes) ==
    IF brushes = <<>> THEN create_empty_contents
    ELSE combine_contents(FoldContents(SubSeq(brushes, 1, Len(brushes) - 1)),
                          brushes[Len(brushes)].contents)

\* BuildTree_r has turned node n into a leaf
BuiltLeaf(n) == n \in DOMAIN tasks /\ tasks[n].state = "done" /\ nodes[n].is_leaf

\* C7: a leaf made by BuildTree_r has the contents that combine_contents folds
\* from create_empty_contents() over the brushes left at the node; a leaf
\* with no brushes has the empty contents.
C7_LeafContents ==
    \A n \in DOMAIN nodes : BuiltLeaf(n) =>
        /\ nodes[n].contents = FoldContents(tasks[n].brushes)
        /\ tasks[n].brushes = <<>> => nodes[n].contents = create_empty_contents

\* a leaf of two brushes whose combined contents are not the last brush's,
\* and a leaf without brushes
C7_Witness ==
    /\ \E n \in DOMAIN nodes :
          /\ BuiltLeaf(n)
          /\ Len(tasks[n].brushes) >= 2
          /\ nodes[n].contents # tasks[n].brushes[Len(tasks[n].brushes)].contents
    /\ \E n \in DOMAIN nodes : BuiltLeaf(n) /\ tasks[n].brushes = <<>>

\* C8: BrushBSP with an empty brush list returns a tree whose head node is an
\* interior node with exactly two children, both leaves with empty contents
\* whose parent is the head node; no splitter is selected and no task is run.
C8_EmptyList ==
    (Finished /\ mapbrushes = <<>>) =>
        /\ DOMAIN nodes = 1..3
        /\ InteriorShape(1)
        /\ nodes[1].parent = 0
        /\ \A c \in 2..3 : /\ LeafShape(c)
                           /\ nodes[c].contents = create_empty_contents
                           /\ nodes[c].parent = 1
        /\ tasks = <<>>
        /\ stats = NewStats

\* BrushBSP has returned the tree of an empty list
C8_Witness == Finished /\ mapbrushes = <<>> /\ brushlist = <<>> /\ nodes # <<>>

\* the brush objects a task holds
Held(n) == {tasks[n].brushes[i].id : i \in 1..Len(tasks[n].brushes)}

\* C10: at every point of the build each brush object is in the brush list
\* of at most one BuildTree_r task or leaf, and there once: SplitBrushList
\* never puts the same brush into both child lists.
C10_SingleOwner ==
    \A n \in DOMAIN tasks :
        /\ Cardinality(Held(n)) = Len(tasks[n].brushes)
        /\ \A m \in DOMAIN tasks : m # n => Held(n) \cap Held(m) = {}

\* two sibling tasks of a build with two threads both hold brushes, halves
\* of a split brush among them
C10_Witness ==
    /\ opts.threads = 2
    /\ \E n \in DOMAIN tasks :
          /\ n % 2 = 0
          /\ n + 1 \in DOMAIN tasks
          /\ tasks[n].state = "spawned"
          /\ tasks[n + 1].state = "spawned"
          /\ \E i \in 1..Len(tasks[n].brushes) : \E j \in 1..Len(tasks[n + 1].brushes) :
                /\ Len(tasks[n].brushes[i].id) > 1
                /\ tasks[n].brushes[i].original_ptr = tasks[n + 1].brushes[j].original_ptr

\* the subtree below node n is completely built: its task has returned and it
\* is a leaf, or an interior node whose two child tasks have returned
Built(n) ==
    /\ tasks[n].state = "done"
    /\ \/ LeafShape(n)
       \/ /\ InteriorShape(n)
          /\ \A c \in 1..2 : /\ nodes[n].children[c] \in DOMAIN tasks
                             /\ tasks[nodes[n].children[c]].state = "done"

\* C11: BuildTree_r on a node returns only after both child subtree tasks
\* have returned, in every interleaving: a task that has returned belongs to
\* a leaf or to an interior node whose two child tasks have returned, and
\* when BrushBSP returns the tree of a non-empty list every task has returned.
C11_WaitsForBoth ==
    /\ \A n \in DOMAIN tasks : tasks[n].state = "done" => Built(n)
    /\ (Finished /\ mapbrushes # <<>>) =>
           /\ DOMAIN tasks = DOMAIN nodes
           /\ \A n \in DOMAIN nodes : Built(n)

\* with two threads, a task waits although one of its child tasks has
\* returned, the other not having run yet
C11_Witness ==
    /\ opts.threads = 2
    /\ \E n \in DOMAIN tasks :
          /\ tasks[n].state = "waiting"
          /\ tasks[2 * n + 1].state = "done"
          /\ tasks[2 * n].state = "spawned"

\* the permutations of a list
Perms(s) ==
    {SeqOf([i \in 1..Len(s) |-> s[q[i]]]) :
        q \in {f \in [1..Len(s) -> 1..Len(s)] : \A i, j \in 1..Len(s) : f[i] = f[j] => i = j}}

\* BuildTree_r is about to run on node n
Pending(n) == pc = "BuildTree" /\ tasks[n].state = "spawned"

\* the planes SelectSplitPlane returns at node n for the permutations of its brushes
PlanesOfPerms(n) ==
    {SelectSplitPlane(p, n, opts.forced_quick_tree).plane : p \in Perms(tasks[n].brushes)}

\* the first of the candidates cands, in order, whose value vals[i] no other exceeds
FirstGreatest(cands, vals) ==
    cands[SetMin({i \in 1..Len(cands) : \A j \in 1..Len(cands) : vals[j] <= vals[i]})]

\* the plane of the side at <<brush index, side index>>, positive
PlaneAt(brushes, k) == Positive(brushes[k[1]].sides[k[2]].planenum)

\* the sides midsplit mode looks at, in list order: no bevel, not onnode,
\* the plane splitting the node's volume in two
MidCandidates(brushes, n) ==
    SelectSeq(SideIndex(brushes),
              LAMBDA k : /\ ~brushes[k[1]].sides[k[2]].bevel
                         /\ ~brushes[k[1]].sides[k[2]].onnode
                         /\ CheckPlaneAgainstVolume(PlaneAt(brushes, k), nodes[n].volume))

\* the first side in list order with the smallest metric (all planes are axial)
MidFirstBest(brushes, n, cands) ==
    PlaneAt(brushes,
            FirstGreatest(cands, SeqOf([i \in 1..Len(cands) |->
                -SplitPlaneMetric(Plane(PlaneAt(brushes, cands[i])), nodes[n].bounds)])))

\* the sides a heuristic pass looks at, in list order
PassCandidates(brushes, n, pass) ==
    SelectSeq(SideIndex(brushes),
              LAMBDA k : /\ ~SkipSide(brushes[k[1]], brushes[k[1]].sides[k[2]], pass)
                         /\ CheckPlaneAgainstVolume(PlaneAt(brushes, k), nodes[n].volume))

\* the first side in list order with the greatest value
PassFirstBest(brushes, cands) ==
    PlaneAt(brushes,
            FirstGreatest(cands, SeqOf([i \in 1..Len(cands) |->
                TestCandidate(brushes, brushes[cands[i][1]].sides[cands[i][2]]).value])))

\* the passes that have a candidate
LivePasses(brushes, n) == {pass \in 0..3 : PassCandidates(brushes, n, pass) # <<>>}

\* heuristic mode: the first-best side of the first pass that has candidates
HeuristicFirstBest(brushes, n, passes) ==
    IF passes = {} THEN nullopt
    ELSE Some(PassFirstBest(brushes, PassCandidates(brushes, n, SetMin(passes))))

\* what the first-best rule gives at node n; quick says whether midsplit mode is tried
FirstBest(brushes, n, quick, mid) ==
    IF brushes = <<>> THEN nullopt
    ELSE IF quick /\ mid # <<>> THEN Some(MidFirstBest(brushes, n, mid))
    ELSE HeuristicFirstBest(brushes, n, LivePasses(brushes, n))

\* is midsplit mode tried for these brushes at node n?
TriesMidsplit(brushes, n) ==
    /\ ~Has(opts.forced_quick_tree) \/ Val(opts.forced_quick_tree)
    /\ \E quick \in {QuickDecision(Len(brushes), nodes[n], opts.forced_quick_tree)} :
          Has(quick) /\ Val(quick)

\* C12 (as amended): the plane chosen at a node depends on the order of the
\* brush list: SelectSplitPlane returns the plane of the first side, in list
\* order, with the smallest metric (midsplit mode) or with the greatest value
\* in the first pass that has candidates (heuristic mode).
C12_FirstBest ==
    \A n \in DOMAIN tasks : Pending(n) =>
        \E sel \in {SelectSplitPlane(tasks[n].brushes, n, opts.forced_quick_tree)} :
            sel.error = "" =>
                sel.plane = FirstBest(tasks[n].brushes, n, TriesMidsplit(tasks[n].brushes, n),
                                      MidCandidates(tasks[n].brushes, n))

\* a node at which two orders of the same brushes get different planes in
\* heuristic mode
C12_Witness ==
    \E n \in DOMAIN tasks :
        /\ Pending(n)
        /\ Len(tasks[n].brushes) >= 2
        /\ Cardinality(PlanesOfPerms(n)) > 1
        /\ ~TriesMidsplit(tasks[n].brushes, n)

\* C12 as stated: the plane chosen at a node is the same for every
\* permutation of the node's brush list.
C12_AsStated ==
    \A n \in DOMAIN tasks : Pending(n) => Cardinality(PlanesOfPerms(n)) = 1

\* the planenums of the sides of a list of brushes
SidePlanenums(brushes) ==
    UNION {{brushes[i].sides[k].planenum : k \in 1..Len(brushes[i].sides)} : i \in 1..Len(brushes)}

\* a result of SelectSplitPlane that is None or the positive plane of a side
PositiveOfSide(brushes, sel) ==
    Has(sel.plane) =>
        /\ Val(sel.plane) % 2 = 0
        /\ Val(sel.plane) \in {Positive(p) : p \in SidePlanenums(brushes)}

\* C13: what SelectSplitPlane returns at a node is None or an even plane
\* index, the planenum with the low bit cleared of a side of a brush of the
\* node's list, in midsplit and heuristic mode; the plane of every interior
\* node is even (the builder's assertion holds).
C13_PositivePlane ==
    /\ \A n \in DOMAIN tasks : Pending(n) =>
           \E sel \in {SelectSplitPlane(tasks[n].brushes, n, opts.forced_quick_tree)} :
               sel.error = "" => PositiveOfSide(tasks[n].brushes, sel)
    /\ \A n \in DOMAIN nodes : nodes[n].planenum # PLANENUM_LEAF => nodes[n].planenum % 2 = 0

\* heuristic mode chooses a plane that only a side facing the other way
\* lies on: the index returned is that side's planenum with the low bit cleared
C13_Witness ==
    \E n \in DOMAIN tasks :
        /\ Pending(n)
        /\ ~TriesMidsplit(tasks[n].brushes, n)
        /\ \E sel \in {SelectSplitPlane(tasks[n].brushes, n, opts.forced_quick_tree)} :
              /\ sel.error = ""
              /\ Has(sel.plane)
              /\ Val(sel.plane) \notin SidePlanenums(tasks[n].brushes)
              /\ Val(sel.plane) + 1 \in SidePlanenums(tasks[n].brushes)

\* the part of an axial box in front of (c = 0) or behind (c = 1) a positive axial plane
HalfSpacePart(bounds, plane, c) ==
    IF c = 0 THEN [bounds EXCEPT !.mins[AxisOf(plane)] = Max2(@, plane.dist)]
    ELSE [bounds EXCEPT !.maxs[AxisOf(plane)] = Min2(@, plane.dist)]

\* is every winding point of the brush inside the bounds?
BrushWithin(brush, bounds) ==
    \A p \in SidePoints(brush.sides) : \A i \in Axes : bounds.mins[i] <= p[i] /\ p[i] <= bounds.maxs[i]

\* is the brush on side c of the plane: no winding point strictly on the other side?
BrushOnSide(brush, plane, c) ==
    \A p \in SidePoints(brush.sides) :
        IF c = 0 THEN DistanceTo(plane, p) >= 0 ELSE DistanceTo(plane, p) <= 0

\* the volume vol of child c is the part of the parent's volume on its side of the plane
IsPartOf(vol, parent, plane, c) ==
    /\ Has(vol)
    /\ BrushWithin(Val(vol), parent.bounds)
    /\ BrushOnSide(Val(vol), plane, c)
    /\ Val(vol).bounds = HalfSpacePart(parent.bounds, plane, c)
    /\ update_bounds(Val(vol).sides).bounds = Val(vol).bounds

\* a step that makes node n interior splits its volume between the children
Partitions ==
    \A n \in DOMAIN tasks : Splits(n) =>
        /\ nodes'[n].volume = nullopt
        /\ \A c \in 0..1 :
              \E vol \in {nodes'[2 * n + c].volume} : \E planenum \in {nodes'[n].planenum} :
                  IsPartOf(vol, Val(nodes[n].volume), Plane(planenum), c)

\* C14: when BuildTree_r makes a node N interior with plane P, child 0 gets
\* the part of N's volume in front of P and child 1 the part behind P: each
\* child volume lies inside N's volume and on its own side of P, and N's own
\* volume is nulled.
C14_VolumePartition == [][Partitions]_vars

\* a node below the head has been split: both children hold a part of its volume
C14_Witness ==
    \E n \in DOMAIN tasks :
        /\ n >= 2
        /\ tasks[n].state = "waiting"
        /\ nodes[n].volume = nullopt
        /\ tasks[2 * n].state = "spawned" /\ Has(nodes[2 * n].volume)
        /\ tasks[2 * n + 1].state = "spawned" /\ Has(nodes[2 * n + 1].volume)
        /\ BrushOnSide(Val(nodes[2 * n].volume), Plane(nodes[n].planenum), 0)
        /\ BrushOnSide(Val(nodes[2 * n + 1].volume), Plane(nodes[n].planenum), 1)

\* the positive planes of the faces of the brushes BrushBSP was called with
InputPlanes == {Positive(p) : p \in SidePlanenums(brushlist)}

\* C15: while BrushBSP builds the tree of a non-empty list and when it has
\* returned, the plane of every interior node is the positive plane of a
\* face of an input brush, also below nodes that have split brushes.
C15_InputPlanes ==
    mapbrushes # <<>> =>
        \A n \in DOMAIN nodes : nodes[n].planenum # PLANENUM_LEAF =>
            nodes[n].planenum \in InputPlanes

\* a finished tree with an interior node on the path to a leaf that holds a
\* piece of a brush split twice
C15_Witness ==
    /\ Finished
    /\ \E m \in DOMAIN tasks : \E i \in 1..Len(tasks[m].brushes) :
          /\ Len(tasks[m].brushes[i].id) >= 5
          /\ Cardinality(Ancestors(m)) >= 3

-----------------------------------------------------------------------------
(* Properties of SplitBrush (SpecSplit) *)

\* the distances of the brush's winding vertices from the split plane
VertexDists == {DistanceTo(Plane(sb.planenum), p) : p \in SidePoints(sb.brush.sides)}

\* C9: SplitBrush by a plane that does not cross the brush returns the brush
\* itself on its side and nothing on the other: (none, brush) if no vertex is
\* 0.1 or more in front of the plane, otherwise (brush, none) if no vertex is
\* 0.1 or more behind it.
C9_NotCrossing ==
    Has(sb.result) =>
        IF \A d \in VertexDists : 10 * d < Scale
        THEN Val(sb.result).front = nullopt /\ Val(sb.result).back = Some(sb.brush)
        ELSE (\A d \in VertexDists : 10 * d > -Scale) =>
                Val(sb.result).front = Some(sb.brush) /\ Val(sb.result).back = nullopt

\* a brush reaching past the plane, but less than 0.1, came back whole on the back
C9_Witness ==
    /\ Has(sb.result)
    /\ \E d \in VertexDists : d > 0
    /\ \A d \in VertexDists : 10 * d < Scale
    /\ Val(sb.result).front = nullopt
    /\ Val(sb.result).back = Some(sb.brush)


-----------------------------------------------------------------------------
(* Properties of ChopBrushes (SpecChop) *)

\* the number of pieces of a - b when b may bite a, SIZE_MAX when it may not
Pieces(a, b) == IF BrushGE(b, a) THEN Len(SubtractBrush(a, b)) ELSE SIZE_MAX

\* b may bite a but does not reach into it: a - b is a itself
Untouched(a, b) == BrushGE(b, a) /\ IsJust(SubtractBrush(a, b), a)

\* the pairs ChopBrushes leaves alone: disjoint brushes, a brush the other
\* one does not reach into, and pairs of which no allowed subtraction has
\* fewer than two pieces
Settled(a, b) ==
    \/ BrushesDisjoint(a, b)
    \/ Untouched(a, b)
    \/ Untouched(b, a)
    \/ (Pieces(a, b) > 1 /\ Pieces(b, a) > 1)

\* the outer loop moves on from b1 to the next brush
MovesOn == pc = "newlist" /\ b1_it' = b1_it + 1

S4Structural == ChopBoxes[3]
S4Detail == ChopBoxes[4]

\* ChopBrushes was called on the two brushes of S4, in either order
IsS4 ==
    mapbrushes \in {MapBrushesOf(<<S4Structural, S4Detail>>),
                    MapBrushesOf(<<S4Detail, S4Structural>>)}

\* C5 (as amended): on S4, in either order, ChopBrushes does not let the
\* detail brush bite the structural one: the output is the structural brush
\* alone and whole, the detail brush inside it having been swallowed.
C5_DetailSwallowed ==
    (Finished /\ IsS4) =>
        /\ brushlist = <<S4Structural>>
        /\ stats.c_swallowed = 1
        /\ stats.c_from_split = 0

\* ChopBrushes has finished on S4 with the detail brush first in the list
C5_Witness ==
    /\ Finished
    /\ mapbrushes = MapBrushesOf(<<S4Detail, S4Structural>>)
    /\ brushlist = <<S4Structural>>

\* C5 as stated: on S4, in either order, the detail brush does not bite the
\* structural one and both brushes are in the output list.
C5_AsStated ==
    (Finished /\ IsS4) =>
        /\ \E i \in 1..Len(brushlist) : brushlist[i] = S4Structural
        /\ \E i \in 1..Len(brushlist) : brushlist[i] = S4Detail

\* the brushes of scenario S3
S3First == ChopBoxes[1]
S3Second == ChopBoxes[2]

\* ChopBrushes was called on the two brushes of S3, in either order
IsS3 ==
    mapbrushes \in {MapBrushesOf(<<S3First, S3Second>>),
                    MapBrushesOf(<<S3Second, S3First>>)}

\* do the two axial boxes share interior points?
Overlap(a, b) == ~disjoint_or_touching(a.bounds, b.bounds)

\* the cells of the grid through the faces of the S3 cubes, each by its
\* minimum corner in map units; every brush made of the S3 cubes is a union
\* of cells
S3Cells == {0, 32, 64} \X {0, 32, 64} \X {0, 32, 64}

\* is the cell inside the box?
CellIn(cell, bounds) ==
    \A i \in Axes : /\ bounds.mins[i] <= cell[i] * Scale
                    /\ (cell[i] + 32) * Scale <= bounds.maxs[i]

\* the cells a list of brushes covers
Covered(brushes) ==
    {cell \in S3Cells : \E i \in 1..Len(brushes) : CellIn(cell, brushes[i].bounds)}

-----------------------------------------------------------------------------
(* Properties of the tested flags (Spec) *)

\* some side of some brush of the list has tested set
AnyTested(brushes) ==
    \E b \in 1..Len(brushes) : \E k \in 1..Len(brushes[b].sides) : brushes[b].sides[k].tested

\* C26: when SelectSplitPlane has returned, with a plane or with None and in
\* either mode, no side of any brush has tested = true: the brushes a task
\* holds, whether it is still to run, waits or is done, and the brushes of
\* the input list never carry a tested mark.
C26_TestedCleared ==
    pc # "error" =>
        /\ ~AnyTested(brushlist)
        /\ \A n \in DOMAIN tasks : ~AnyTested(tasks[n].brushes)

\* the heuristic mode chose a plane that brushes face (their sides on it were
\* marked tested during the evaluation and are onnode now), and a child
\* task holds such a brush
C26_Witness ==
    /\ pc = "BuildTree"
    /\ stats.c_qbsp3 > 0
    /\ \E n \in DOMAIN tasks :
          /\ tasks[n].state = "spawned"
          /\ n > 1
          /\ \E b \in 1..Len(tasks[n].brushes) : \E k \in 1..Len(tasks[n].brushes[b].sides) :
                tasks[n].brushes[b].sides[k].onnode

-----------------------------------------------------------------------------
(* Properties of the validation step of SplitBrush (SpecSplit) *)

\* SplitBrush got as far as the validation of the two halves: the plane
\* crosses the brush and the midwinding is neither empty nor tiny
Validated ==
    /\ Has(sb.result)
    /\ \E d \in VertexDists : 10 * d >= Scale
    /\ \E d \in VertexDists : 10 * d <= -Scale
    /\ \E w \in {MidWinding(BaseWindingForPlane(Plane(sb.planenum)), sb.brush.sides, 1)} :
          w # NoWinding /\ ~WindingIsTiny(w, 2, 10)

\* the parts of the faces of the brush on side j of the plane (1 front, 2 back)
PartsOn(j) ==
    {w \in {Clip(sb.brush.sides[i].w, Plane(sb.planenum), 0, 1)[j] : i \in 1..Len(sb.brush.sides)} :
        w # NoWinding}

\* the half on side j is dropped: no bounds, bounds outside the world extent,
\* or fewer than 3 sides
HalfDropped(j) ==
    \/ Cardinality({i \in 1..Len(sb.brush.sides) :
                       Clip(sb.brush.sides[i].w, Plane(sb.planenum), 0, 1)[j] # NoWinding}) < 3
    \/ \E w \in PartsOn(j) : \E i \in 1..Len(w) : \E a \in Axes : Abs(w[i][a]) > opts.worldextent

\* C27: in the validation step of SplitBrush, if exactly one half is dropped
\* the result is the original, untrimmed brush on the surviving side and
\* nothing on the other, and brushesonesided is incremented; if both halves
\* are dropped the result is nothing on both sides and brushesremoved is
\* incremented.
C27_Validation ==
    Validated =>
        \E r \in {Val(sb.result)} :
            /\ HalfDropped(1) /\ HalfDropped(2) =>
                  /\ r.front = nullopt /\ r.back = nullopt
                  /\ r.c_brushesremoved = 1 /\ r.c_brushesonesided = 0
            /\ HalfDropped(1) /\ ~HalfDropped(2) =>
                  /\ r.front = nullopt /\ r.back = Some(sb.brush)
                  /\ r.c_brushesonesided = 1 /\ r.c_brushesremoved = 0
            /\ ~HalfDropped(1) /\ HalfDropped(2) =>
                  /\ r.front = Some(sb.brush) /\ r.back = nullopt
                  /\ r.c_brushesonesided = 1 /\ r.c_brushesremoved = 0
            /\ ~HalfDropped(1) /\ ~HalfDropped(2) =>
                  r.c_brushesonesided = 0 /\ r.c_brushesremoved = 0

\* a brush whose front half reaches out of the world came back whole on the
\* back side
C27_Witness ==
    /\ Validated
    /\ HalfDropped(1) /\ ~HalfDropped(2)
    /\ Val(sb.result).back = Some(sb.brush)
    /\ Val(sb.result).c_brushesonesided = 1

-----------------------------------------------------------------------------
(* Properties of the node volumes (Spec) *)

\* BuildTree_r is still to run on node n, and SelectSplitPlane will look at
\* candidates there
ToSelect(n) == pc = "BuildTree" /\ tasks[n].state = "spawned" /\ tasks[n].brushes # <<>>

\* C29: whenever SelectSplitPlane evaluates candidates on a node with a
\* non-empty brush list the node's volume is present: the root has the volume
\* BrushFromBounds made, and the split of a node's volume by the chosen plane
\* gives both children a volume.
C29_VolumePresent ==
    /\ [](stats.error # "null volume")
    /\ [](\A n \in DOMAIN tasks : ToSelect(n) => Has(nodes[n].volume))
    /\ [][\A n \in DOMAIN tasks : Splits(n) =>
             Has(nodes'[2 * n].volume) /\ Has(nodes'[2 * n + 1].volume)]_vars

\* a child node with brushes, still to be built, holding its part of the
\* parent's volume
C29_Witness ==
    \E n \in DOMAIN tasks :
        /\ n > 1
        /\ ToSelect(n)
        /\ Has(nodes[n].volume)
        /\ BrushVolume(Val(nodes[n].volume)) > 0

-----------------------------------------------------------------------------
(* Properties of the counters (Spec) *)

\* the interior nodes and the leaves of the tree
InteriorNodes == {n \in DOMAIN nodes : ~nodes[n].is_leaf}
Leaves == {n \in DOMAIN nodes : nodes[n].is_leaf}

\* C30: after BrushBSP on a non-empty brush list, in every interleaving of
\* the subtree tasks, c_nodes is the number of interior nodes of the tree,
\* c_leafs the number of leaves, c_leafs = c_nodes + 1 and
\* c_nodes = c_midsplit + c_qbsp3.
C30_CountersExact ==
    Finished /\ mapbrushes # <<>> =>
        /\ stats.c_nodes = Cardinality(InteriorNodes)
        /\ stats.c_leafs = Cardinality(Leaves)
        /\ stats.c_leafs = stats.c_nodes + 1
        /\ stats.c_nodes = stats.c_midsplit + stats.c_qbsp3

\* a tree built with two threads that has interior nodes in two different
\* subtrees, counted by tasks that ran side by side
C30_Witness ==
    /\ Finished
    /\ opts.threads = 2
    /\ stats.c_nodes >= 3
    /\ \E a, b \in InteriorNodes : a # b /\ a \notin Ancestors(b) /\ b \notin Ancestors(a)

-----------------------------------------------------------------------------
(* SpecSelect: SelectSplitPlane on the head node of a brush list *)

\* a hint brush: the faces in hintfaces hint-textured, the others hintskip
HintBrush(id, mins, maxs, hintfaces) ==
    [BoxBrush(<<id>>, mins, maxs, create_empty_contents) EXCEPT
        !.sides = SeqOf([k \in 1..6 |->
                     [@[k] EXCEPT !.texinfo = IF k \in hintfaces THEN TexHint ELSE TexHintskip]])]

\* a hint brush around the cubes at the origin, its +x and +z faces hint
HintAround == HintBrush(9, <<-Scale, -Scale, -Scale>>, <<5 * Scale, 5 * Scale, 5 * Scale>>, {1, 3})

\* a brush of the given planes as the map loader hands it over: every side
\* visible
BrushOfPlanes(id, planes, contents) ==
    [BrushOfSides(CreateBrushWindings(SidesOfPlanes(planes))) EXCEPT
        !.id = id, !.contents = contents, !.mapbrush = [contents |-> contents],
        !.sides = SeqOf([k \in 1..Len(planes) |-> [@[k] EXCEPT !.visible = TRUE]])]

\* a wedge: the prism over the triangle (0, 0), (5, 0), (0, 3.75) map units,
\* 2 map units high; its sloping side is on the plane 0.6 x + 0.8 y = 3
Wedge(id, contents) ==
    BrushOfPlanes(<<id>>,
        <<add_or_find_plane([normal |-> <<-1, 0, 0>>, den |-> 1, dist |-> 0]),
          add_or_find_plane([normal |-> <<0, -1, 0>>, den |-> 1, dist |-> 0]),
          add_or_find_plane([normal |-> <<0, 0, 1>>, den |-> 1, dist |-> 2 * Scale]),
          add_or_find_plane([normal |-> <<0, 0, -1>>, den |-> 1, dist |-> 0]),
          add_or_find_plane([normal |-> <<3, 4, 0>>, den |-> 5, dist |-> 3 * Scale])>>,
        contents)

\* the brush lists SelectSplitPlane is run on
SelectLists ==
    << <<Cube(1, 0, 0, 0, Solid)>>,
       <<Cube(1, 0, 0, 0, Solid), Cube(2, 4, 0, 0, Solid)>>,
       <<Cube(1, 0, 0, 0, Solid), Cube(2, 1, 0, 0, Water)>>,
       <<BoxBrush(<<1>>, <<0, 0, 0>>, <<18 * Scale, 2 * Scale, 2 * Scale>>, Solid)>>,
       <<BoxBrush(<<1>>, <<0, 0, 0>>, <<18 * Scale, 2 * Scale, 2 * Scale>>, Solid),
         Cube(2, 4, 4, 0, DetailSolid)>>,
       <<HintAround, Cube(1, 0, 0, 0, Solid), Cube(2, 0, 2, 0, Solid)>>,
       <<Cube(1, 0, 0, 0, Solid), Cube(2, 0, 2, 0, Solid), HintAround>>,
       <<Cube(1, 0, 0, 0, Solid), HintAround, Cube(2, 0, 2, 0, Solid)>>,
       <<Invisible(Cube(1, 0, 0, 0, Solid)), Cube(2, 4, 0, 0, DetailSolid)>>,
       <<Invisible(Cube(1, 0, 0, 0, Solid)), Invisible(Cube(2, 0, 4, 0, DetailSolid))>>,
       <<HintBrush(1, <<0, 0, 0>>, <<2 * Scale, 2 * Scale, 2 * Scale>>, {})>>,
       <<Wedge(1, Solid)>>,
       <<Wedge(1, Solid), Cube(2, 0, 4, 0, Solid)>>,
       <<Cube(1, 0, 4, 0, Water), Wedge(2, Solid)>> >>

\* how many of the SelectLists are run
NSelectLists == 12

\* the option sets SelectSplitPlane is run with: forced_quick_tree,
\* midsplitbrushfraction, maxnodesize, and total_brushes as a multiple of the
\* length of the list
SelectOptions ==
    {<<q, f, m, t>> : q \in {nullopt, Some(TRUE), Some(FALSE)},
                      f \in {<<0, 1>>, <<1, 2>>},
                      m \in {0, 64, 1024},
                      t \in {1, 4}}

\* the head node BrushBSP creates for a brush list
HeadNode(brushes) ==
    [create_node EXCEPT
        !.volume = Some(BrushFromBounds(Grow(TreeBounds(brushes, 1), SIDESPACE * Scale))),
        !.bounds = Grow(TreeBounds(brushes, 1), SIDESPACE * Scale)]

InitSelect ==
    /\ pc = "SelectSplitPlane"
    /\ brushlist \in {SelectLists[i] : i \in 1..NSelectLists}
    /\ opts \in {[DefaultOptions EXCEPT !.forced_quick_tree = o[1],
                                        !.midsplitbrushfraction = o[2],
                                        !.maxnodesize = o[3],
                                        !.total_brushes = o[4] * Len(brushlist)] :
                    o \in SelectOptions}
    /\ mapbrushes = MapBrushesOf(brushlist)
    /\ nodes = (1 :> HeadNode(brushlist))
    /\ tasks = (1 :> Task("spawned", brushlist))
    /\ stats = NewStats
    /\ list = <<>>
    /\ b1_it = 0
    /\ sb = [result |-> nullopt]

\* SelectSplitPlane(brushes, node, forced_quick_tree, stats) on the head node:
\* the brushes' side, testside and tested, node.detail_separator and the
\* counters are written, and the plane is returned
CallSelectSplitPlane ==
    /\ pc = "SelectSplitPlane"
    /\ \E sel \in {SelectSplitPlane(brushlist, 1, opts.forced_quick_tree)} :
          /\ sb' = IF sel.error # "" THEN sb ELSE [result |-> Some(sel.plane)]
          /\ brushlist' = sel.brushes
          /\ nodes' = [nodes EXCEPT ![1].detail_separator = sel.detail_separator]
          /\ stats' = [AddStats(stats, sel, NoSplit, NoSplit, 0, 0) EXCEPT !.error = sel.error]
          /\ pc' = IF sel.error # "" THEN "error" ELSE "done"
    /\ UNCHANGED <<mapbrushes, opts, tasks, list, b1_it>>

NextSelect == CallSelectSplitPlane

SpecSelect == InitSelect /\ [][NextSelect]_vars

-----------------------------------------------------------------------------
(* SpecRoute: the brushes of a list classified against a plane and routed *)

\* a sliver: a brush one PLANESIDE_EPSILON thick around the plane x = x map
\* units, spanning [0, 2] map units in y and z.  Its two x sides are on the
\* planes just in front of and just behind that plane.
Sliver(id, x, contents) ==
    BrushOfPlanes(<<id>>,
        <<NearBase + add_or_find_plane([normal |-> <<1, 0, 0>>, den |-> 1, dist |-> x * Scale]),
          2 * NearBase + add_or_find_plane([normal |-> <<-1, 0, 0>>, den |-> 1, dist |-> -x * Scale]),
          add_or_find_plane([normal |-> <<0, 1, 0>>, den |-> 1, dist |-> 2 * Scale]),
          add_or_find_plane([normal |-> <<0, -1, 0>>, den |-> 1, dist |-> 0]),
          add_or_find_plane([normal |-> <<0, 0, 1>>, den |-> 1, dist |-> 2 * Scale]),
          add_or_find_plane([normal |-> <<0, 0, -1>>, den |-> 1, dist |-> 0])>>,
        contents)

\* the brush lists that are classified and routed
RouteLists ==
    << <<Cube(1, 0, 0, 0, Solid), Cube(2, 4, 0, 0, Solid)>>,
       <<Cube(1, 0, 0, 0, Solid), Cube(2, 1, 0, 0, Water)>>,
       <<Cube(1, 2, 0, 0, Solid), Sliver(2, 4, Solid), Cube(3, 3, 0, 0, Water)>>,
       <<Wedge(1, Solid), Cube(2, 0, 1, 0, Water)>>,
       <<HintAround, Cube(1, 0, 0, 0, Solid), Cube(2, 0, 2, 0, Solid)>>,
       <<Cube(1, 0, 0, 0, Solid), Sliver(2, 2, Water)>>,
       <<Cube(1, 0, 0, 0, Solid), Cube(2, 0, 0, 1, DetailSolid)>> >>

\* how many of the RouteLists are run
NRouteLists == 6

InitRoute ==
    /\ pc = "TestBrushToPlanenum"
    /\ brushlist \in {RouteLists[i] : i \in 1..NRouteLists}
    /\ sb \in {[side |-> t, planenum |-> Positive(brushlist[t[1]].sides[t[2]].planenum),
                tests |-> <<>>, result |-> nullopt] :
                  t \in {t \in (1..Len(brushlist)) \X (1..6) :
                            t[2] <= Len(brushlist[t[1]].sides)}}
    /\ opts = DefaultOptions
    /\ mapbrushes = MapBrushesOf(brushlist)
    /\ nodes = <<>>
    /\ tasks = <<>>
    /\ stats = NewStats
    /\ list = <<>>
    /\ b1_it = 0

\* the test loop of SelectSplitPlane for the side sb.side, taken as the one
\* that wins: every brush is classified by TestBrushToPlanenum (sb.tests has
\* what each call gave), the loop dies of a facing brush that reports splits,
\* the result is cached in test->side and the tested flags are cleared
CallTestBrushToPlanenum ==
    /\ pc = "TestBrushToPlanenum"
    /\ \E t \in {TestCandidate(brushlist, brushlist[sb.side[1]].sides[sb.side[2]])} :
          /\ sb' = [sb EXCEPT !.tests =
                       SeqOf([b \in 1..Len(brushlist) |->
                                 TestBrushToPlanenum(brushlist[b], sb.planenum, TRUE)])]
          /\ brushlist' = IF t.facing_with_splits THEN t.brushes
                          ELSE ClearTested(SaveSides(t.brushes))
          /\ stats' = [stats EXCEPT !.error = IF t.facing_with_splits
                                              THEN "PSIDE_FACING with splits" ELSE ""]
          /\ pc' = IF t.facing_with_splits THEN "error" ELSE "SplitBrushList"
    /\ UNCHANGED <<mapbrushes, opts, nodes, tasks, list, b1_it>>

\* SplitBrushList(brushes, planenum, stats) on the classified list
CallSplitBrushList ==
    /\ pc = "SplitBrushList"
    /\ sb' = [sb EXCEPT !.result = Some(SplitBrushList(brushlist, sb.planenum))]
    /\ pc' = "done"
    /\ UNCHANGED <<mapbrushes, opts, brushlist, nodes, tasks, stats, list, b1_it>>

NextRoute == CallTestBrushToPlanenum \/ CallSplitBrushList

SpecRoute == InitRoute /\ [][NextRoute]_vars

-----------------------------------------------------------------------------
(* Properties of BoxOnPlaneSide and TestBrushToPlanenum (SpecRoute) *)

\* the brushes have been classified against sb.planenum
Classified == pc \in {"SplitBrushList", "done"}

\* the brushes of the list that have no side on the plane or its flip
BoxTested == {b \in 1..Len(brushlist) : FacingSides(brushlist[b], sb.planenum) = {}}

\* C22 as stated: BoxOnPlaneSide returns exactly one of FRONT, BACK or BOTH
\* for every bounding box and plane, so every brush classified by
\* TestBrushToPlanenum carries at least one of the FRONT and BACK bits.
C22_AsStated ==
    Classified =>
        /\ \A b \in BoxTested :
              BoxOnPlaneSide(brushlist[b].bounds, Plane(sb.planenum))
                  \in {PSIDE_FRONT, PSIDE_BACK, PSIDE_BOTH}
        /\ \A b \in 1..Len(brushlist) :
              HasBit(sb.tests[b].s, PSIDE_FRONT) \/ HasBit(sb.tests[b].s, PSIDE_BACK)

\* C24: whenever the result of TestBrushToPlanenum has the FACING bit the
\* reported numsplits is 0, so the test loop of SelectSplitPlane never dies
\* of "PSIDE_FACING with splits".
C24_FacingNoSplits ==
    /\ stats.error # "PSIDE_FACING with splits"
    /\ pc # "error"
    /\ Classified =>
          \A b \in 1..Len(brushlist) :
              HasBit(sb.tests[b].s, PSIDE_FACING) => sb.tests[b].numsplits = 0

\* a plane that one brush of the list faces and that splits sides of another
C24_Witness ==
    /\ Classified
    /\ \E b \in 1..Len(brushlist) : HasBit(sb.tests[b].s, PSIDE_FACING)
    /\ \E b \in 1..Len(brushlist) : sb.tests[b].s = PSIDE_BOTH /\ sb.tests[b].numsplits > 0

-----------------------------------------------------------------------------
(* Properties of SplitBrushList (SpecRoute) *)

\* SplitBrushList has returned its two lists
Routed == pc = "done" /\ Has(sb.result)

\* the positions of brush b in a child list
PlacesIn(lst, b) == {i \in 1..Len(lst) : lst[i].id = brushlist[b].id}

\* the windings and bounds of a brush
Geometry(brush) ==
    <<brush.bounds, SeqOf([k \in 1..Len(brush.sides) |-> <<brush.sides[k].planenum, brush.sides[k].w>>])>>

\* brush b went unsplit to the child list lst, and to no other place
MovedTo(lst, other, b) ==
    /\ Cardinality(PlacesIn(lst, b)) = 1
    /\ PlacesIn(other, b) = {}
    /\ \A i \in PlacesIn(lst, b) :
          /\ Geometry(lst[i]) = Geometry(brushlist[b])
          /\ \A k \in 1..Len(lst[i].sides) :
                lst[i].sides[k].onnode =
                    \/ brushlist[b].sides[k].onnode
                    \/ /\ HasBit(brushlist[b].side, PSIDE_FACING)
                       /\ Positive(lst[i].sides[k].planenum) = sb.planenum

\* C23 as stated: a brush whose cached side is BOTH goes through SplitBrush;
\* every other brush goes unchanged to exactly one child list, child 0 with
\* the FRONT bit and child 1 with the BACK bit, its sides on the split plane
\* marked onnode when it faces the plane; no brush is lost without going
\* through SplitBrush.
C23_AsStated ==
    Routed =>
        \A b \in 1..Len(brushlist) :
            IF brushlist[b].side = PSIDE_BOTH
            THEN \E r \in {SplitBrush(brushlist[b], sb.planenum)} :
                    /\ Has(r.front) => \E i \in 1..Len(Val(sb.result).front) :
                                           Val(sb.result).front[i] = Val(r.front)
                    /\ Has(r.back) => \E i \in 1..Len(Val(sb.result).back) :
                                          Val(sb.result).back[i] = Val(r.back)
            ELSE IF HasBit(brushlist[b].side, PSIDE_FRONT)
            THEN MovedTo(Val(sb.result).front, Val(sb.result).back, b)
            ELSE MovedTo(Val(sb.result).back, Val(sb.result).front, b)

-----------------------------------------------------------------------------
(* Properties of SelectSplitPlane (SpecSelect) *)

\* SelectSplitPlane has returned a plane
Selected == pc = "done" /\ Has(sb.result) /\ Has(Val(sb.result))

\* the plane SelectSplitPlane returned
SelectedPlane == Val(Val(sb.result))

\* SelectSplitPlane has returned no plane
SelectedNone == pc = "done" /\ Has(sb.result) /\ ~Has(Val(sb.result))

\* the planes of the hint-textured sides of the brushes
HintSidePlanes(brushes) ==
    {Positive(brushes[b].sides[k].planenum) :
        <<b, k>> \in {x \in (1..Len(brushes)) \X (1..7) :
                         x[2] <= Len(brushes[x[1]].sides) /\ is_hint(brushes[x[1]].sides[x[2]])}}

\* does TestBrushToPlanenum report a split hint side for some brush?
SplitsHint(brushes, positive_planenum) ==
    \E b \in 1..Len(brushes) : TestBrushToPlanenum(brushes[b], positive_planenum, TRUE).hintsplit

\* the sides of the brushes that are not hint-textured
PlainSides(brushes) ==
    {brushes[x[1]].sides[x[2]] :
        x \in {y \in (1..Len(brushes)) \X (1..7) :
                  y[2] <= Len(brushes[y[1]].sides) /\ ~is_hint(brushes[y[1]].sides[y[2]])}}

\* C16: in heuristic mode a side that is not hint-textured is never chosen
\* as the splitter when its plane splits a hint side of a brush of the list;
\* the hintsplit flag of a candidate is true iff some brush classified against
\* it reported a split hint side, whatever the order of the brushes.
C16_AsStated ==
    (Selected /\ stats.c_qbsp3 = 1) =>
        /\ SelectedPlane \notin HintSidePlanes(tasks[1].brushes)
               => ~SplitsHint(tasks[1].brushes, SelectedPlane)
        /\ \A side \in PlainSides(tasks[1].brushes) :
               TestCandidate(tasks[1].brushes, side).hintsplit
                   <=> SplitsHint(tasks[1].brushes, Positive(side.planenum))

\* SelectSplitPlane has returned or died
Returned == pc \in {"done", "error"}

\* the plane was chosen by ChooseMidPlaneFromList
EnteredMidsplit == stats.c_midsplit = 1

\* trigger (a): the list is more than midsplitbrushfraction of the map
TriggerFraction ==
    /\ opts.midsplitbrushfraction[1] > 0
    /\ Len(tasks[1].brushes) * opts.midsplitbrushfraction[2]
           > opts.midsplitbrushfraction[1] * opts.total_brushes

\* trigger (b): maxnodesize is enabled and the node is larger
TriggerSize ==
    /\ opts.maxnodesize >= 64
    /\ \E i \in Axes :
          (nodes[1].bounds.maxs[i] - nodes[1].bounds.mins[i]) * opts.epsilon[2]
              > (opts.maxnodesize * opts.epsilon[2] - opts.epsilon[1]) * Scale

\* C17 (as amended): with forced_quick_tree = nullopt the two triggers are
\* alternatives chosen by midsplitbrushfraction: when it is not 0 midsplit
\* mode is entered iff trigger (a) holds, whatever maxnodesize and the size of
\* the node; when it is 0, iff trigger (b) holds.  With true midsplit mode is
\* always entered and with false never.
C17_Triggers ==
    Returned =>
        /\ opts.forced_quick_tree = Some(TRUE) => EnteredMidsplit
        /\ opts.forced_quick_tree = Some(FALSE) => ~EnteredMidsplit
        /\ (opts.forced_quick_tree = nullopt /\ opts.midsplitbrushfraction[1] # 0)
               => (EnteredMidsplit <=> TriggerFraction)
        /\ (opts.forced_quick_tree = nullopt /\ opts.midsplitbrushfraction[1] = 0)
               => (EnteredMidsplit <=> TriggerSize)

\* a large node of a small part of the map, both triggers enabled: trigger
\* (b) holds, trigger (a) does not, and the plane is chosen by the heuristic
C17_Witness ==
    /\ Selected
    /\ opts.forced_quick_tree = nullopt
    /\ TriggerSize
    /\ opts.midsplitbrushfraction[1] > 0
    /\ ~TriggerFraction
    /\ Has(ChooseMidPlaneFromList(tasks[1].brushes, nodes[1]).plane)
    /\ ~EnteredMidsplit
    /\ stats.c_qbsp3 = 1

\* C17 as stated: with forced_quick_tree = nullopt midsplit mode is entered
\* whenever either of the triggers (a) and (b) holds on its own; with true it
\* is always entered and with false never.
C17_AsStated ==
    Returned =>
        /\ opts.forced_quick_tree = Some(TRUE) => EnteredMidsplit
        /\ opts.forced_quick_tree = Some(FALSE) => ~EnteredMidsplit
        /\ (opts.forced_quick_tree = nullopt /\ (TriggerFraction \/ TriggerSize))
               => EnteredMidsplit

\* forced_quick_tree is nullopt and neither trigger is enabled
NoTriggerEnabled ==
    /\ opts.forced_quick_tree = nullopt
    /\ opts.midsplitbrushfraction[1] = 0
    /\ opts.maxnodesize < 64

\* C18: when forced_quick_tree is nullopt and neither midsplit trigger is
\* enabled (midsplitbrushfraction = 0 and maxnodesize < 64), SelectSplitPlane
\* on a non-empty brush list does not fail: it skips midsplit mode and returns
\* what the heuristic mode selects.
C18_AsStated ==
    (Returned /\ NoTriggerEnabled /\ tasks[1].brushes # <<>>) =>
        /\ pc = "done"
        /\ stats.error = ""
        /\ ~EnteredMidsplit
        /\ sb.result = Some(SelectHeuristic(tasks[1].brushes, 1).plane)

-----------------------------------------------------------------------------
(* Properties of the inner loop of ChopBrushes (SpecChop) *)

\* the inner loop body leaves the pair b1 = a, b2 = b alone: the brushes are
\* disjoint, an allowed subtraction returns the brush itself, or no allowed
\* subtraction has fewer than two pieces (a subtraction that is not allowed
\* counts SIZE_MAX pieces)
Skips(a, b) ==
    \/ BrushesDisjoint(a, b)
    \/ Untouched(a, b)
    \/ /\ Pieces(a, b) # 0
       /\ \/ Untouched(b, a)
          \/ Pieces(b, a) # 0 /\ Pieces(a, b) > 1 /\ Pieces(b, a) > 1

\* the same with the guard as the claim states it: skipped when neither may
\* bite, or when both subtractions were made and both have several pieces
SkipsBothMade(a, b) ==
    \/ BrushesDisjoint(a, b)
    \/ Untouched(a, b)
    \/ /\ Pieces(a, b) # 0
       /\ \/ Untouched(b, a)
          \/ /\ Pieces(b, a) # 0
             /\ \/ ~BrushGE(a, b) /\ ~BrushGE(b, a)
                \/ /\ BrushGE(a, b) /\ BrushGE(b, a)
                   /\ Pieces(a, b) > 1 /\ Pieces(b, a) > 1

\* the list after the pair lst[i], lst[j] was acted on: a swallowed brush
\* erased, or the brush with fewer pieces replaced by its pieces
Chopped(lst, i, j) ==
    IF Pieces(lst[i], lst[j]) = 0 THEN Erase(lst, i)
    ELSE IF Pieces(lst[j], lst[i]) = 0 THEN Erase(lst, j)
    ELSE IF Pieces(lst[i], lst[j]) < Pieces(lst[j], lst[i])
    THEN Erase(lst \o SubtractBrush(lst[i], lst[j]), i)
    ELSE Erase(lst \o SubtractBrush(lst[j], lst[i]), j)

\* the skip relation: the guard as stated (both subtractions made) or as
\* Skips has it
SkipBy(made, a, b) == IF made THEN SkipsBothMade(a, b) ELSE Skips(a, b)

\* one iteration of the outer loop follows the skip relation: either every
\* later brush is skipped and the scan moves on, or the first pair not skipped
\* is acted on and the scan restarts
FollowsGuard(made) ==
    (pc = "newlist" /\ b1_it <= Len(list)) =>
        \/ /\ \A j \in (b1_it + 1)..Len(list) : SkipBy(made, list[b1_it], list[j])
           /\ list' = list
           /\ b1_it' = b1_it + 1
        \/ \E j \in (b1_it + 1)..Len(list) :
              /\ \A k \in (b1_it + 1)..(j - 1) : SkipBy(made, list[b1_it], list[k])
              /\ ~SkipBy(made, list[b1_it], list[j])
              /\ list' = Chopped(list, b1_it, j)
              /\ b1_it' = b1_it

\* C20 (as amended): an intersecting pair is skipped by the anti-explosion
\* guard whenever no allowed subtraction has exactly one piece, a direction
\* in which biting is not allowed counting as fragmenting; so a pair of which
\* only one may bite and that subtraction has several pieces is skipped.  In
\* every other intersecting case where some brush may bite, the brush with
\* fewer pieces is replaced by its pieces (a swallowed brush by none), the
\* victim is erased and the scan restarts.
C20_Guard == [][FollowsGuard(FALSE)]_vars

\* the scan has moved on from the first brush of the input, which intersects
\* a later brush that may not bite it and that it bites into several pieces
C20_Witness ==
    /\ pc = "newlist"
    /\ stats = NewChopStats
    /\ b1_it >= 2
    /\ \E j \in 2..Len(list) :
          /\ ~BrushesDisjoint(list[1], list[j])
          /\ Pieces(list[1], list[j]) = SIZE_MAX
          /\ ~Untouched(list[j], list[1])
          /\ Pieces(list[j], list[1]) > 1
          /\ Pieces(list[j], list[1]) < SIZE_MAX

\* C20 as stated: an intersecting pair is skipped by the guard only when both
\* subtractions are nonempty and both have more than one piece; in every other
\* intersecting case where some brush may bite, also when only one direction
\* is allowed and that subtraction has several pieces, the smaller-fragmenting
\* brush is replaced by its pieces, the victim is erased and the scan restarts.
C20_AsStated == [][FollowsGuard(TRUE)]_vars

-----------------------------------------------------------------------------
(* Properties of the heuristic passes (SpecSelect) *)

\* SelectSplitPlane has returned from its heuristic mode
HeuristicReturned == pc = "done" /\ Has(sb.result) /\ stats.c_midsplit = 0 /\ brushlist # <<>>

\* the pass a side belongs to: visible-structural, visible-detail,
\* non-visible-structural, non-visible-detail
PassOf(brush, side) ==
    (IF is_visible(side) THEN 0 ELSE 2) + (IF is_any_detail(brush.mapbrush.contents) THEN 1 ELSE 0)

\* the sides of a pass that can win it, as <<brush index, side index>>: not a
\* bevel, with a winding, not onnode, not hintskip, the plane splitting the
\* node's volume, and the value above the initial bestvalue
PassWinners(pass) ==
    {k \in {t \in (1..Len(brushlist)) \X (1..6) : t[2] <= Len(brushlist[t[1]].sides)} :
        \E side \in {brushlist[k[1]].sides[k[2]]} :
            /\ PassOf(brushlist[k[1]], side) = pass
            /\ ~side.bevel /\ side.w # NoWinding /\ ~side.onnode /\ ~is_hintskip(side)
            /\ CheckPlaneAgainstVolume(Positive(side.planenum), nodes[1].volume)
            /\ TestCandidate(brushlist, side).value > -99999}

\* the value of a side as a candidate
ValueAt(k) == TestCandidate(brushlist, brushlist[k[1]].sides[k[2]]).value

\* the passes that have a winner
WinningPasses == {pass \in 0..3 : PassWinners(pass) # {}}

\* C25: in heuristic mode the passes run in the order visible-structural,
\* visible-detail, non-visible-structural, non-visible-detail; the plane
\* returned is that of a best-valued candidate of the earliest pass that has
\* a winner, detail_separator is set exactly when that pass is not pass 0,
\* and with no winner in any pass the result is None.
C25_PassOrder ==
    HeuristicReturned =>
        IF WinningPasses = {}
        THEN SelectedNone /\ ~nodes[1].detail_separator
        ELSE /\ Selected
             /\ \E k \in PassWinners(SetMin(WinningPasses)) :
                   /\ SelectedPlane = Positive(brushlist[k[1]].sides[k[2]].planenum)
                   /\ \A j \in PassWinners(SetMin(WinningPasses)) : ValueAt(j) <= ValueAt(k)
             /\ nodes[1].detail_separator = (SetMin(WinningPasses) > 0)

\* the winner came from the visible-detail pass although the list has sides of
\* a later pass that could have won theirs
C25_Witness ==
    /\ HeuristicReturned
    /\ Selected
    /\ nodes[1].detail_separator
    /\ SetMin(WinningPasses) = 1
    /\ PassWinners(2) # {}

-----------------------------------------------------------------------------
(* Properties of ChooseMidPlaneFromList (SpecSelect) *)

\* the valid candidates of midsplit mode at the head node, in list order
HeadCandidates == MidCandidates(tasks[1].brushes, 1)

\* the plane, the metric and the kind of a candidate
HeadPlane(k) == PlaneAt(tasks[1].brushes, k)
HeadMetric(k) == SplitPlaneMetric(Plane(HeadPlane(k)), nodes[1].bounds)
HeadAxial(k) == get_type(Plane(HeadPlane(k))) < PLANE_ANYX

\* candidate i is the first of the candidates in S with the smallest metric in S
FirstSmallest(cands, i, S) ==
    /\ i \in S
    /\ \A j \in S : HeadMetric(cands[i]) <= HeadMetric(cands[j])
    /\ \A j \in S : j < i => HeadMetric(cands[j]) > HeadMetric(cands[i])

\* the indices of the axial candidates
AxialOf(cands) == {i \in 1..Len(cands) : HeadAxial(cands[i])}

\* C19 (as amended): in midsplit mode the returned plane is a valid candidate;
\* when some valid candidate is axial it is the first axial candidate with the
\* smallest metric among the axial ones, whatever the metrics of the others;
\* only when no valid candidate is axial is it the first candidate with the
\* smallest metric of all.
C19_AxialFirst ==
    (Selected /\ EnteredMidsplit) =>
        \E i \in 1..Len(HeadCandidates) :
            /\ HeadPlane(HeadCandidates[i]) = SelectedPlane
            /\ FirstSmallest(HeadCandidates, i,
                             IF AxialOf(HeadCandidates) # {} THEN AxialOf(HeadCandidates)
                             ELSE 1..Len(HeadCandidates))

\* midsplit mode has returned an axial plane although a valid candidate that
\* is not axial has a smaller metric
C19_Witness ==
    /\ Selected
    /\ EnteredMidsplit
    /\ get_type(Plane(SelectedPlane)) < PLANE_ANYX
    /\ \E i \in 1..Len(HeadCandidates) :
          /\ ~HeadAxial(HeadCandidates[i])
          /\ HeadMetric(HeadCandidates[i])
                 < SplitPlaneMetric(Plane(SelectedPlane), nodes[1].bounds)

\* C19 as stated: in midsplit mode the returned plane is a valid candidate
\* with the smallest metric among all valid candidates, an axial candidate
\* being preferred to one that is not only when their metrics tie.
C19_AsStated ==
    (Selected /\ EnteredMidsplit) =>
        \E i \in 1..Len(HeadCandidates) :
            /\ HeadPlane(HeadCandidates[i]) = SelectedPlane
            /\ \A j \in 1..Len(HeadCandidates) :
                  /\ HeadMetric(HeadCandidates[i]) <= HeadMetric(HeadCandidates[j])
                  /\ (HeadMetric(HeadCandidates[j]) = HeadMetric(HeadCandidates[i])
                      /\ HeadAxial(HeadCandidates[j])) => HeadAxial(HeadCandidates[i])

-----------------------------------------------------------------------------
(* Properties of the restarts of ChopBrushes (SpecChop) *)

\* a step of the outer loop that changes the list (a swallow or a replacement)
ListChanges == pc = "newlist" /\ list' # list

\* C21 (as amended): after a structural change in ChopBrushes the scan does
\* not start again at the head of the list: b1_it keeps its position (the
\* brush after b1 when b1 was erased, b1 itself otherwise), the brushes before
\* it stay as they are and are not examined again, and fragments are appended
\* behind it.
C21_ResumesAtB1 ==
    [][ListChanges =>
          /\ b1_it' = b1_it
          /\ SubSeq(list', 1, b1_it - 1) = SubSeq(list, 1, b1_it - 1)]_vars

\* ChopBrushes has returned a list in which a brush and a fragment behind it
\* would not be left alone by the inner loop: the scan had passed the brush
\* before the fragment was appended
C21_Witness ==
    /\ Finished
    /\ stats.c_from_split > 0
    /\ \E i \in 1..Len(brushlist) : \E j \in (i + 1)..Len(brushlist) :
          /\ Len(brushlist[j].id) > 1
          /\ ~Skips(brushlist[i], brushlist[j])

\* C21 as stated: after every structural change the pair scan begins a new
\* pass over the whole modified list, so every pair of the final list has been
\* examined and left alone.
C21_AsStated ==
    /\ [][ListChanges => b1_it' = 1]_vars
    /\ [](Finished => \A i \in 1..Len(brushlist) : \A j \in (i + 1)..Len(brushlist) :
                          Skips(brushlist[i], brushlist[j]))

-----------------------------------------------------------------------------
(* Properties of the size of the list of ChopBrushes (SpecChop) *)

\* a step of the outer loop that replaces a brush by the pieces of a subtraction
Replaces == ListChanges /\ stats'.c_from_split > stats.c_from_split

\* a step of the outer loop that erases a swallowed brush
Swallows == ListChanges /\ stats'.c_swallowed > stats.c_swallowed

\* C28: ChopBrushes never increases the number of brushes: a replacement puts
\* exactly one piece in the place of one brush, a swallow removes one brush,
\* and the list is never longer than the input list.
C28_NeverGrows ==
    /\ [][/\ Replaces => /\ stats'.c_from_split = stats.c_from_split + 1
                         /\ Len(list') = Len(list)
          /\ Swallows => Len(list') = Len(list) - 1
          /\ ListChanges => Replaces \/ Swallows]_vars
    /\ [](Len(list) <= Len(mapbrushes) /\ Len(brushlist) <= Len(mapbrushes))

\* ChopBrushes has returned after replacing a brush by its one piece while
\* another pair of the list was left alone by the guard because both
\* subtractions fragment
C28_Witness ==
    /\ Finished
    /\ stats.c_from_split > 0
    /\ Len(brushlist) + stats.c_swallowed = Len(mapbrushes)
    /\ \E i \in 1..Len(brushlist) : \E j \in (i + 1)..Len(brushlist) :
          Pieces(brushlist[i], brushlist[j]) > 1 /\ Pieces(brushlist[j], brushlist[i]) > 1

=============================================================================
